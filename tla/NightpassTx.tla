----------------------------- MODULE NightpassTx -----------------------------
(***************************************************************************)
(* Calling a Nightpass circuit from a client: callTx of the Midnight       *)
(* library, seen from how api.ts and nightpass-agent.ts use it.            *)
(*                                                                         *)
(* callTx runs the circuit on the ledger it sees, with the witnesses of    *)
(* the client's private state, proves it and submits a transaction; the    *)
(* chain applies the transaction later if what the circuit read has not    *)
(* changed since, and the client learns of it later still, if at all.      *)
(* Each of the three is a step of its own in the modules that extend this  *)
(* one.                                                                    *)
(***************************************************************************)
EXTENDS Nightpass

Actions == {"issuePass", "redeemCall", "attest"}

\* A transaction carries the pass it was proven with, the call index or the
\* number of calls claimed, and the ledger values its circuit read.
Tx(ids) == [id : ids, action : Actions, pass : Pass, calls : 0 .. MaxUint,
            record : ToolRecord, served : 0 .. MaxUint]

proven(id, action, c, calls) ==
  [id |-> id, action |-> action, pass |-> c, calls |-> calls,
   record |-> tools[c.tool], served |-> callsServed[c.tool]]

\* The asserts of the circuit, on the ledger as it is now.  The last ones of a
\* purchase and a redemption can only be known when it applies.
circuitHolds(action, c, auditor, calls) ==
  /\ c.tool \in DOMAIN tools
  /\ action # "attest" => tools[c.tool].active
  /\ action # "issuePass" => checkRoot(c)
  /\ action = "redeemCall" => /\ withinQuota(c.tool, calls)
                              /\ unspent(callNullifier(c, calls))
  /\ action = "attest" => /\ claimable(c.tool, calls)
                          /\ auditTag(auditor, c, calls)
                               \notin DOMAIN attestations

\* A redemption read the counter it increments; a toggled listing is a
\* changed record.
readsHold(x) ==
  /\ x.record = tools[x.pass.tool]
  /\ x.action = "redeemCall" => x.served = callsServed[x.pass.tool]

Apply(x, auditor) ==
  LET t == x.pass.tool  sk == x.pass.sk  nonce == x.pass.nonce
  IN  /\ readsHold(x)
      /\ CASE x.action = "issuePass"  -> issuePass(t, sk, nonce)
           [] x.action = "redeemCall" ->
                redeemCall(t, sk, nonce, x.pass, x.calls)
           [] x.action = "attest" ->
                attestUsage(t, sk, nonce, x.pass, auditor, x.calls)
=============================================================================
