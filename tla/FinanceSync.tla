----------------------------- MODULE FinanceSync -----------------------------
(***************************************************************************)
(* The finance tool: the key of its encrypted store from the Keychain, the *)
(* store, and the read-only sync from the bank (tools/finance.ts,          *)
(* finance/keychain.ts, store.ts, plaid-client.ts).                        *)
(*                                                                         *)
(* A step is one call of the security CLI, of the store or of Plaid; calls *)
(* of the tool are serial, as the loop makes them.  A row is its           *)
(* transaction; balances and amounts are left out.  The owner's bank books *)
(* and settles transactions at any time: a pending one that settles is     *)
(* removed and comes back under another id.                                *)
(***************************************************************************)
EXTENDS Naturals, FiniteSets

CONSTANTS
    Txns,           \* transactions the bank may book
    PageSize,       \* of one /transactions/sync
    MaxPages,       \* the guard of the cursor loop, 50
    MaxKeys         \* bound on the keys ever made

ASSUME FinanceNats ==
    PageSize \in Nat \ {0} /\ MaxPages \in Nat \ {0} /\ MaxKeys \in Nat \ {0}

NoKey == 0
Keys == 1..MaxKeys

VARIABLES
    bank,           \* the transactions the bank shows now
    keychain,       \* the key under com.kernel.finance, if any
    made,           \* how many keys were generated
    store,          \* finance.db: the key it was created with, its rows
    query,          \* the call of the tool in hand
    told,           \* history: what the last answer showed, and should have
    misled,         \* history: a read of a key that is there has failed
    unwritten       \* history: keys of adds that were taken for done, and were not

keyVars == <<keychain, made, misled, unwritten>>
financeVars == <<bank, store, query, told, keyVars>>

NoStore == [key |-> NoKey, accounts |-> FALSE, rows |-> {}]

(* A call: where it is; its operation; the key it opens with; what of the  *)
(* bank it has seen; its pages; history: what the bank has shown all along.*)
NoQuery == [at |-> "idle", op |-> "aggregate", key |-> NoKey, seen |-> {},
            pages |-> 0, all |-> {}, more |-> FALSE]

NothingTold == [rows |-> {}, all |-> {}, more |-> FALSE]

FinanceInit ==
    /\ bank = {} /\ keychain = NoKey /\ made = 0
    /\ store = NoStore /\ query = NoQuery
    /\ told = NothingTold /\ misled = FALSE /\ unwritten = {}

-----------------------------------------------------------------------------
(* execute.                                                                *)

At(step) == query.at = step

Query(op) ==
    /\ At("idle")
    /\ query' = [NoQuery EXCEPT !.at = "find", !.op = op]
    /\ told' = NothingTold
    /\ UNCHANGED <<bank, store, keyVars>>

FoundNever(exited) == FALSE         \* slip: a key is made on every call

(* find-generic-password printed a key.                                    *)
Found(exited) == exited /\ keychain # NoKey

(* Whatever keeps the command from printing it, the code takes for a miss. *)
FindKey ==
    /\ At("find")
    /\ \E exited \in BOOLEAN :
          /\ misled' = (misled \/ (keychain # NoKey /\ ~exited))
          /\ query' = IF Found(exited)
                      THEN [query EXCEPT !.at = "open", !.key = keychain]
                      ELSE [query EXCEPT !.at = "add"]
    /\ UNCHANGED <<bank, keychain, made, store, told, unwritten>>

(* add-generic-password -U: a new key, in place of the one there.  It is   *)
(* taken for done when the command's code is 0, and no code, the command   *)
(* killed by a signal, counts as 0 (keychain.ts:51): what was there stays. *)
AddKey ==
    /\ At("add") /\ made < MaxKeys
    /\ made' = made + 1
    /\ \E written \in BOOLEAN :
          /\ keychain' = IF written THEN made' ELSE keychain
          /\ unwritten' = IF written THEN unwritten ELSE unwritten \cup {made'}
    /\ query' = [query EXCEPT !.at = "open", !.key = made']
    /\ UNCHANGED <<bank, store, told, misled>>

(* The typed escalation.                                                   *)
AddFails ==
    /\ At("add") /\ query' = NoQuery
    /\ UNCHANGED <<bank, store, told, keyVars>>

(* openStore.  The first one creates the file under its key.  Another key  *)
(* cannot read it; that throws before the try of execute, and the call     *)
(* rejects.  Only the two listings sync, and only with a token.            *)
OpenStore ==
    /\ At("open")
    /\ IF store.key \notin {NoKey, query.key}
       THEN query' = NoQuery /\ UNCHANGED store
       ELSE /\ store' = [store EXCEPT !.key = query.key]
            /\ \E step \in IF query.op = "aggregate" THEN {"answer"}
                           ELSE {"balances", "answer"} :
                  query' = [query EXCEPT !.at = step,
                                         !.all = IF step = "balances" THEN bank ELSE {}]
    /\ UNCHANGED <<bank, told, keyVars>>

Balances ==
    /\ At("balances")
    /\ store' = [store EXCEPT !.accounts = TRUE]
    /\ query' = [query EXCEPT !.at = "page"]
    /\ UNCHANGED <<bank, told, keyVars>>

PagesLeftOne(n) == n = 0            \* slip: only the first page is asked for

PagesLeft(n) == n < MaxPages

(* One page: what was added since the cursor, upserted.  What was modified *)
(* or removed is in the same response, and nobody reads it.                *)
Page ==
    /\ At("page")
    /\ \E page \in SUBSET (bank \ query.seen) :
          LET seen == query.seen \cup page
              more == bank \ seen # {}
          IN  /\ Cardinality(page) <= PageSize
              /\ more => Cardinality(page) = PageSize
              /\ store' = [store EXCEPT !.rows = @ \cup page]
              /\ query' = [query EXCEPT
                    !.seen = seen, !.pages = @ + 1, !.more = more,
                    !.at = IF more /\ PagesLeft(query.pages + 1) THEN "page" ELSE "answer"]
    /\ UNCHANGED <<bank, told, keyVars>>

(* The typed escalation; pages already stored stay, the cursor is lost.    *)
PlaidFails ==
    /\ At("balances") \/ At("page")
    /\ query' = NoQuery
    /\ UNCHANGED <<bank, store, told, keyVars>>

(* listTransactions, or a sum of them, from the store.                     *)
TellRows ==
    /\ At("answer")
    /\ told' = [rows |-> store.rows, all |-> query.all,
                more |-> query.more /\ query.pages >= MaxPages]
    /\ query' = NoQuery
    /\ UNCHANGED <<bank, store, keyVars>>

(* The process ends with a call in hand.                                   *)
FinanceCrash ==
    /\ ~At("idle") /\ query' = NoQuery
    /\ UNCHANGED <<bank, store, told, keyVars>>

(* The bank.  settled are the pending transactions that settle.            *)
BankMoves ==
    \E booked \in Txns \ (bank \cup store.rows) :
        \E settled \in SUBSET bank :
            /\ Cardinality(settled) <= 1
            /\ bank' = (bank \ settled) \cup {booked}
            /\ query' = [query EXCEPT !.all = @ \ settled]
            /\ UNCHANGED <<store, told, keyVars>>

FinanceNext ==
    \/ \E op \in {"balances", "transactions", "aggregate"} : Query(op)
    \/ FindKey \/ AddKey \/ AddFails \/ OpenStore
    \/ Balances \/ Page \/ PlaidFails \/ TellRows
    \/ FinanceCrash \/ BankMoves

FinanceSpec == FinanceInit /\ [][FinanceNext]_financeVars

-----------------------------------------------------------------------------
(* The key in the Keychain opens the store, through calls that fail or die *)
(* between the two commands, as long as no read of a key that is there has *)
(* failed (finance/keychain.ts:9-13) and the store was not created under a *)
(* key whose add was killed and taken for done (keychain.ts:51).           *)
StoreOpens ==
    ~misled /\ store.key \notin {NoKey} \cup unwritten => keychain = store.key

(* An answer after a sync shows all that the bank has shown since the sync *)
(* began, whatever earlier syncs left behind, unless the pages ran out.    *)
SyncIsComplete == told.all \subseteq told.rows \/ told.more
=============================================================================
