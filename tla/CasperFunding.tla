----------------------------- MODULE CasperFunding -----------------------------
(***************************************************************************)
(* The operator's scripts fund.ts, wrap.ts, transfer.ts and                *)
(* deploy-registry.ts (apps/web/scripts/casper) over getCsprBalance,       *)
(* wrapCspr and transferWcspr of lib/x402/casper.ts.                       *)
(*                                                                         *)
(* A script reads a balance, decides, puts a transaction to a node and     *)
(* polls for its execution.  When the window ends first the script fails,  *)
(* and the transaction may execute later, under the next script.  Scripts  *)
(* run one at a time.  CSPR is counted in tenths; gas that is not used is  *)
(* not returned.                                                           *)
(***************************************************************************)
EXTENDS Naturals, Sequences

CONSTANTS
  Wallets,     \* treasury, agent, facilitator
  Operator,    \* the treasury: transfer.ts and deploy-registry.ts spend from it
  StartCspr,   \* CSPR a wallet may hold at first
  Amounts,     \* CSPR that is sent or wrapped, WCSPR that is transferred
  WRAP_GAS, TRANSFER_GAS, INSTALL_GAS,
  MaxPuts      \* bound: transactions put to a node

ASSUME CasperFundingAssumption ==
  /\ Operator \in Wallets /\ StartCspr \subseteq Nat /\ Amounts \subseteq Nat \ {0}
  /\ WRAP_GAS \in Nat /\ TRANSFER_GAS \in Nat /\ INSTALL_GAS \in Nat
  /\ MaxPuts \in Nat

VARIABLES
  cspr,       \* wallet -> CSPR
  wcspr,      \* wallet -> WCSPR
  puts,       \* transactions put, in order
  command,    \* the running script: [at, tx, quiet]
  announced   \* transactions a script announced as done

csprVars == <<cspr, wcspr, puts, command, announced>>

noCommand == [at |-> "none", quiet |-> FALSE, tx |->
  [kind |-> "fund", from |-> Operator, to |-> Operator, amount |-> 0]]

CsprInit ==
  /\ cspr \in [Wallets -> StartCspr]
  /\ wcspr = [w \in Wallets |-> 0]
  /\ puts = <<>>
  /\ command = noCommand
  /\ announced = {}

-----------------------------------------------------------------------------
(***************************************************************************)
(* The chain.                                                              *)
(***************************************************************************)
TRANSFER_FEE == 1

payment(tx) ==
  CASE tx.kind = "fund"     -> TRANSFER_FEE
    [] tx.kind = "wrap"     -> WRAP_GAS
    [] tx.kind = "transfer" -> TRANSFER_GAS
    [] tx.kind = "install"  -> INSTALL_GAS

\* What leaves the purse of the sender besides the payment.
attached(tx) == IF tx.kind \in {"fund", "wrap"} THEN tx.amount ELSE 0

succeeds(tx) ==
  /\ cspr[tx.from] >= payment(tx) + attached(tx)
  /\ tx.kind = "transfer" => wcspr[tx.from] >= tx.amount

after(status, i) == puts' = [puts EXCEPT ![i].status = status]

Run(i) ==
  LET tx == puts[i]
  IN  /\ tx.status = "accepted" /\ succeeds(tx)
      /\ after("executed", i)
      /\ cspr' = [w \in Wallets |->
           cspr[w] - (IF w = tx.from THEN payment(tx) + attached(tx) ELSE 0)
             + (IF w = tx.to /\ tx.kind = "fund" THEN tx.amount ELSE 0)]
      /\ wcspr' = [w \in Wallets |->
           wcspr[w] - (IF w = tx.from /\ tx.kind = "transfer" THEN tx.amount ELSE 0)
             + (IF w = tx.to /\ tx.kind \in {"wrap", "transfer"} THEN tx.amount ELSE 0)]
      /\ UNCHANGED <<command, announced>>

\* Execution with an error message takes the payment all the same.
RunFails(i) ==
  LET tx == puts[i]
  IN  /\ tx.status = "accepted" /\ ~succeeds(tx)
      /\ after("failed", i)
      /\ cspr' = [cspr EXCEPT ![tx.from] =
                    IF @ < payment(tx) THEN 0 ELSE @ - payment(tx)]
      /\ UNCHANGED <<wcspr, command, announced>>

ExpirePut(i) ==
  /\ puts[i].status = "accepted"
  /\ after("expired", i)
  /\ UNCHANGED <<cspr, wcspr, command, announced>>

-----------------------------------------------------------------------------
(***************************************************************************)
(* The scripts.                                                            *)
(***************************************************************************)
Begin(kind, from, to, amount) ==
  /\ command.at = "none"
  /\ kind \in {"transfer", "install"} => from = Operator
  /\ kind = "fund" => from # to
  /\ kind \in {"wrap", "install"} => from = to
  /\ command' = [noCommand EXCEPT !.at = "checking", !.tx =
       [kind |-> kind, from |-> from, to |-> to, amount |-> amount]]
  /\ UNCHANGED <<cspr, wcspr, puts, announced>>

\* The balance a script asks for; transfer.ts asks for none.
needed(tx) ==
  CASE tx.kind = "fund"     -> tx.amount + TRANSFER_FEE
    [] tx.kind = "wrap"     -> tx.amount + WRAP_GAS
    [] tx.kind = "install"  -> INSTALL_GAS
    [] tx.kind = "transfer" -> 0

\* The wallet has no transaction on its way.
quiet(w) == \A i \in DOMAIN puts : puts[i].status = "accepted" => puts[i].from # w

Check ==
  LET tx == command.tx
  IN  /\ command.at = "checking"
      /\ command' = IF cspr[tx.from] < needed(tx) THEN noCommand
                    ELSE [command EXCEPT !.at = "putting", !.quiet = quiet(tx.from)]
      /\ UNCHANGED <<cspr, wcspr, puts, announced>>

\* putTransactionRaw throws when the reply is an error.
tookIt(taken) == taken

\* A node refuses what cannot pay for its gas, and the reply can be lost.
Put ==
  LET tx    == command.tx
      taken == cspr[tx.from] >= payment(tx)
  IN  /\ command.at = "putting" /\ Len(puts) < MaxPuts
      /\ puts' = Append(puts, [kind |-> tx.kind, from |-> tx.from, to |-> tx.to,
           amount |-> tx.amount, quiet |-> command.quiet,
           status |-> IF taken THEN "accepted" ELSE "refused"])
      /\ \/ tookIt(taken) /\ command' = [command EXCEPT !.at = "polling"]
         \/ command' = noCommand
      /\ UNCHANGED <<cspr, wcspr, announced>>

\* waitForTransactionRaw: executed, and no error message.
goneThrough(tx) == tx.status = "executed"

Announce ==
  /\ command.at = "polling" /\ goneThrough(puts[Len(puts)])
  /\ announced' = announced \cup {Len(puts)}
  /\ command' = noCommand
  /\ UNCHANGED <<cspr, wcspr, puts>>

\* The window has ended, the transaction has failed, or a node did not answer:
\* the balance and the status alike are read from one.
Fail ==
  /\ command.at \in {"checking", "polling"}
  /\ command' = noCommand
  /\ UNCHANGED <<cspr, wcspr, puts, announced>>

CsprNext ==
  \/ \E i \in DOMAIN puts : Run(i) \/ RunFails(i) \/ ExpirePut(i)
  \/ \E kind \in {"fund", "wrap", "transfer", "install"},
        from, to \in Wallets, amount \in Amounts : Begin(kind, from, to, amount)
  \/ Check
  \/ Put
  \/ Announce
  \/ Fail

CsprSpec == CsprInit /\ [][CsprNext]_csprVars

-----------------------------------------------------------------------------
\* Every field has its type, and a script polls for what a node took.
CsprTypeOK ==
  /\ cspr \in [Wallets -> Nat] /\ wcspr \in [Wallets -> Nat]
  /\ Len(puts) <= MaxPuts
  /\ \A i \in DOMAIN puts :
       puts[i].status \in {"accepted", "executed", "failed", "expired", "refused"}
  /\ command.at \in {"none", "checking", "putting", "polling"}
  /\ command.at = "polling" => puts # <<>> /\ puts[Len(puts)].status # "refused"
  /\ announced \subseteq DOMAIN puts

\* "transferred", "wrapped" and "INSTALLED" are printed for what was executed,
\* however late an earlier transaction of the wallet was.
AnnouncedIsExecuted == \A i \in announced : puts[i].status = "executed"

\* "not enough for ... + fee", "needs ... (wrap amount + ~20 gas)": a balance
\* that passed the check of its script is enough, unless another transaction of
\* the wallet was on its way at the same time.
ChecksAreEnough ==
  \A i \in DOMAIN puts :
    puts[i].kind # "transfer" /\ puts[i].status \in {"failed", "refused"}
      => \E j \in DOMAIN puts :
           puts[j].from = puts[i].from /\ j >= i /\ ~puts[j].quiet

\* What the Casper scripts announce happened, and what they check is enough.
CsprInv == CsprTypeOK /\ AnnouncedIsExecuted /\ ChecksAreEnough
=============================================================================
