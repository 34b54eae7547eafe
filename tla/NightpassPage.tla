----------------------------- MODULE NightpassPage -----------------------------
(***************************************************************************)
(* The page on which a visitor runs an agent on Midnight and then audits   *)
(* the calls (components/nightpass-run.tsx, nightpass-console.tsx and      *)
(* nightpass-verifier.tsx), one tab of one visitor, over what the live     *)
(* agent promises (PassService).  Another tab of the same visitor, other   *)
(* visitors, and restarts of the server are the steps of PassService that  *)
(* the page has no part in.                                                *)
(*                                                                         *)
(* The page knows only what it was answered: GETs are sent by a timer      *)
(* while the wallet is warming up and come back in any order or never; the *)
(* POST of a button is one at a time.                                      *)
(***************************************************************************)
EXTENDS PassService, FiniteSets

CONSTANTS
  Me,         \* the visitor at this tab
  Throwaway,  \* a pass nobody bought: secret and nonce made by the browser
  Slugs,      \* names the verifier offers to hash
  Tool,       \* the one of the tool whose passes the agent sells
  MaxGets     \* bound: GETs sent and not yet answered

ASSUME PageAssumption ==
  /\ Me \in Visitors /\ Throwaway \notin Keys
  /\ Tool \in Slugs /\ MaxGets \in Nat \ {0}

VARIABLES
  boot,      \* server: the phase of its agent
  gets,      \* GETs on their way to the server
  answers,   \* answers to GETs on their way back
  phase,     \* page: the phase shown, "checking" before the first answer
  shown,     \* page: set with the pass shown, or empty
  post,      \* page: the button pressed whose POST is under way, or "idle"
  reply,     \* answer to the POST on its way back, in a set
  inputs,    \* verifier: [key, slug, calls] it would ask about
  adopted,   \* verifier: the pass it took over from the page (prefill) and
             \* still has in its form, in a set
  asking,    \* verifier: its request on the way to the server, in a set
  found,     \* verifier: the answer to it on its way back, in a set
  verify     \* verifier: the result shown, in a set

pageVars == <<held, onRecord, boot, gets, answers, phase, shown, post,
              reply, inputs, adopted, asking, found, verify>>
postVars  == <<post, reply>>
runVars   == <<gets, answers, phase, shown, postVars>>
auditVars == <<inputs, adopted, asking, found, verify>>

Phases     == {"warming", "ready", "error"}
Actions    == {"issuePass", "redeemCall", "attest"}
Snapshot   == [phase : Phases, pass : SUBSET HeldPass]
Inputs     == [key : Keys \cup {Throwaway}, slug : Slugs, calls : 1 .. Quota]
\* A request, and whether it is for what the page had handed over by then.
Requests   == [ask : Inputs, handed : BOOLEAN]
\* An answer: the pass it is about (its commitment) and a row per index.
Results    == [of : Keys \cup {Throwaway}, calls : 1 .. Quota,
               present : SUBSET (0 .. Quota), handed : BOOLEAN]

PageInit ==
  /\ ServiceInit
  /\ boot = "warming"
  /\ gets = 0 /\ answers = {}
  /\ phase = "closed" /\ shown = {} /\ post = "idle" /\ reply = {}
  \* The code starts with 3 calls of 5.
  /\ inputs = [key |-> Throwaway, slug |-> Tool, calls |-> 1]
  /\ adopted = {} /\ asking = {} /\ found = {} /\ verify = {}

snapshot == [phase |-> boot, pass |-> held[Me]]

-----------------------------------------------------------------------------
(***************************************************************************)
(* The server.                                                             *)
(***************************************************************************)
BootEnds(p) ==
  /\ boot = "warming" /\ p # "warming"
  /\ boot' = p
  /\ UNCHANGED <<held, onRecord, runVars, auditVars>>

\* A new process, which the next request starts warming up.
RestartServer ==
  /\ Forget
  /\ boot' = "warming"
  /\ UNCHANGED <<runVars, auditVars>>

\* Transactions of anybody, and answers to anybody else.
Elsewhere ==
  /\ \/ \E k \in Keys : Issue(k) \/ Record(k)
     \/ boot = "ready" /\ \E v \in Visitors : Count(v) \/ \E k \in Keys : Grant(v, k)
  /\ UNCHANGED <<boot, runVars, auditVars>>

-----------------------------------------------------------------------------
(***************************************************************************)
(* Polling (refresh and its effects).                                      *)
(***************************************************************************)
warming == phase = "warming"

\* The page opens and asks once.
Open ==
  /\ phase = "closed"
  /\ phase' = "checking" /\ gets' = 1
  /\ UNCHANGED <<held, onRecord, boot, answers, shown, postVars, auditVars>>

polls_UntilAnswered == phase = "checking"
polls               == warming

Poll ==
  /\ polls
  /\ gets + Cardinality(answers) < MaxGets
  /\ gets' = gets + 1
  /\ UNCHANGED <<held, onRecord, boot, answers, phase, shown, postVars,
                 auditVars>>

AnswerGet ==
  /\ gets > 0
  /\ gets' = gets - 1
  /\ answers' = answers \cup {snapshot}
  /\ UNCHANGED <<held, onRecord, boot, phase, shown, postVars, auditVars>>

Refresh(a) ==
  /\ a \in answers
  /\ answers' = answers \ {a}
  /\ phase' = a.phase /\ shown' = a.pass
  /\ UNCHANGED <<held, onRecord, boot, gets, postVars, auditVars>>

\* A failed GET is caught and changes nothing.
GetFails ==
  /\ \/ gets > 0 /\ gets' = gets - 1 /\ UNCHANGED answers
     \/ \E a \in answers : answers' = answers \ {a} /\ UNCHANGED gets
  /\ UNCHANGED <<held, onRecord, boot, phase, shown, postVars, auditVars>>

-----------------------------------------------------------------------------
(***************************************************************************)
(* The buttons of the run.                                                 *)
(***************************************************************************)
enabled(action) ==
  /\ phase = "ready" /\ post = "idle"
  /\ CASE action = "issuePass"  -> shown = {}
       [] action = "redeemCall" -> \E p \in shown : p.calls < Quota
       [] action = "attest"     -> \E p \in shown : p.calls > 0

Press(action) ==
  /\ enabled(action)
  /\ post' = action
  /\ UNCHANGED <<held, onRecord, boot, gets, answers, phase, shown, reply,
                 auditVars>>

\* The agent did it; the answer carries the status and the session's pass.
PostSucceeds ==
  /\ boot = "ready" /\ boot' = boot /\ reply = {}
  /\ \/ post = "issuePass"  /\ \E k \in Keys : Grant(Me, k)
     \/ post = "redeemCall" /\ Count(Me)
     \/ post = "attest" /\ held[Me] # {} /\ UNCHANGED <<held, onRecord>>
  /\ reply' = {snapshot'}
  /\ UNCHANGED <<gets, answers, phase, shown, post, auditVars>>

afterPost_Counted(a) == {[p EXCEPT !.calls = @ + 1] : p \in a.pass}
afterPost(a)         == a.pass

PostAnswered ==
  /\ \E a \in reply : phase' = a.phase /\ shown' = afterPost(a)
  /\ post' = "idle" /\ reply' = {}
  /\ UNCHANGED <<held, onRecord, boot, gets, answers, auditVars>>

\* Refused, failed, or answered to nobody: the error is shown and nothing
\* else, whatever the agent did.
PostFails ==
  /\ post # "idle"
  /\ post' = "idle" /\ reply' = {}
  /\ UNCHANGED <<held, onRecord, boot, gets, answers, phase, shown, auditVars>>

-----------------------------------------------------------------------------
(***************************************************************************)
(* The verifier.                                                           *)
(***************************************************************************)
\* "Audit these calls below", offered for a pass with calls.  The clamp to
\* 1 .. 5 changes nothing, as 5 is the quota of the page's passes.
Adopt ==
  /\ \E p \in shown :
       /\ p.calls > 0
       /\ adopted' = {p}
       /\ inputs' = [key |-> p.key, slug |-> Tool, calls |-> p.calls]
  /\ verify' = {}
  /\ UNCHANGED <<held, onRecord, boot, runVars, asking, found>>

NewSecret ==
  /\ inputs' = [inputs EXCEPT !.key = Throwaway]
  /\ adopted' = {} /\ verify' = {}
  /\ UNCHANGED <<held, onRecord, boot, runVars, asking, found>>

SelectCalls(n) ==
  /\ inputs' = [inputs EXCEPT !.calls = n]
  /\ UNCHANGED <<held, onRecord, boot, runVars, adopted, asking, found, verify>>

\* The buttons of step 2 name the tool that step 3 derives the pass for.
ChooseSlug(s) ==
  /\ inputs' = [inputs EXCEPT !.slug = s]
  /\ UNCHANGED <<held, onRecord, boot, runVars, adopted, asking, found, verify>>

\* The form asks for calls that the page has said were spent.
asHanded == \E p \in adopted : inputs.slug = Tool /\ inputs.calls <= p.calls

verifying == asking \cup found # {}

DeriveAndCheck ==
  /\ ~ verifying
  /\ asking' = {[ask |-> inputs, handed |-> asHanded]} /\ verify' = {}
  /\ UNCHANGED <<held, onRecord, boot, runVars, inputs, adopted, found>>

\* What secret, nonce and tool derive: for another tool, a pass nobody bought.
derived(ask) == IF ask.slug = Tool THEN ask.key ELSE Throwaway

\* The nullifiers of one pass are spent in order of their index (the agent
\* redeems at its counter).
spent(k) == IF k \in DOMAIN onRecord THEN onRecord[k] ELSE 0

\* The row after the claimed ones is asked as well.
rows_FromOne(ask) == {i \in 0 .. ask.calls : i + 1 < spent(derived(ask))}
rows(ask)         == {i \in 0 .. ask.calls : i < spent(derived(ask))}

\* The server fetches the ledger; its answer shows the ledger of that moment.
ReadChain ==
  /\ \E r \in asking :
       found' = {[of |-> derived(r.ask), calls |-> r.ask.calls,
                  present |-> rows(r.ask), handed |-> r.handed]}
  /\ asking' = {}
  /\ UNCHANGED <<held, onRecord, boot, runVars, inputs, adopted, verify>>

\* The answer is shown, under whatever the form says by now.
Checked ==
  /\ found # {} /\ verify' = found /\ found' = {}
  /\ UNCHANGED <<held, onRecord, boot, runVars, inputs, adopted, asking>>

\* Refused, lost on either way, or the ledger could not be fetched.
CheckFails ==
  /\ verifying /\ asking' = {} /\ found' = {}
  /\ UNCHANGED <<held, onRecord, boot, runVars, inputs, adopted, verify>>

-----------------------------------------------------------------------------
PageNext ==
  \/ \E p \in Phases : BootEnds(p)
  \/ RestartServer
  \/ Elsewhere
  \/ Open
  \/ Poll
  \/ AnswerGet
  \/ \E a \in Snapshot : Refresh(a)
  \/ GetFails
  \/ \E action \in Actions : Press(action)
  \/ PostSucceeds
  \/ PostAnswered
  \/ PostFails
  \/ Adopt
  \/ NewSecret
  \/ \E n \in 1 .. Quota : SelectCalls(n)
  \/ \E s \in Slugs : ChooseSlug(s)
  \/ DeriveAndCheck
  \/ ReadChain
  \/ Checked
  \/ CheckFails

\* The timer runs, requests reach the server, and of infinitely many answers
\* some come through.
PageFairness ==
  /\ WF_pageVars(Poll)
  /\ SF_pageVars(AnswerGet)
  /\ SF_pageVars(\E a \in answers : Refresh(a))

PageSpec == PageInit /\ [][PageNext]_pageVars /\ PageFairness

-----------------------------------------------------------------------------
(***************************************************************************)
(* Properties.                                                             *)
(***************************************************************************)
\* Every field has its type; no more requests for the state than the bound.
PageTypeOK ==
  /\ boot \in Phases
  /\ gets + Cardinality(answers) <= MaxGets
  /\ answers \subseteq Snapshot
  /\ phase \in Phases \cup {"closed", "checking"}
  /\ shown \subseteq HeldPass
  /\ post \in Actions \cup {"idle"}
  /\ reply \subseteq Snapshot
  /\ inputs \in Inputs
  /\ adopted \subseteq HeldPass
  /\ asking \subseteq Requests
  /\ found \cup verify \subseteq Results

\* What the visitor sees as bought and spent is on the public record, however
\* old the answer it came from, and also when the server has forgotten it.
ShownCallsAreOnRecord ==
  \A p \in shown : p.key \in DOMAIN onRecord /\ p.calls <= onRecord[p.key]

\* A visitor who asks about the pass the page handed over, for no more calls
\* than the page said were spent, finds every one of them ("the calls you spent
\* should come back present"), although page and verifier saw the chain at two
\* times: whatever was bought, restarted or edited before the request, and
\* whatever was adopted, edited or spent before its answer is shown.  And what
\* any answer shows as present is on record.
AuditConfirmsVisitor ==
  \A r \in verify : /\ r.handed => 0 .. r.calls - 1 \subseteq r.present
                    /\ \A i \in r.present : i < spent(r.of)

\* When the agent's boot has ended for good, a page that shows it warming up
\* stops doing so (the polling effect).  A page whose only GET failed never
\* shows it: its timer starts with an answer.
PageCatchesUp ==
  <>[](boot # "warming") => (phase = "warming" ~> phase # "warming")

\* The page as it is drawn: well formed, and never ahead of the public record.
PageInv == PageTypeOK /\ ShownCallsAreOnRecord
=============================================================================
