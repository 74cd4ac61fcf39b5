------------------------------ MODULE ToolProofs ------------------------------
(***************************************************************************)
(* Theorems about what happens to a tool call: the obstacle ladder, for    *)
(* any calls, retries and backoff; the finance tool, for any bank, any     *)
(* number of keys and any page size and page limit; the browser's fill;    *)
(* and a Claude Code session, for any output of its process.               *)
(***************************************************************************)
EXTENDS ObstacleLadder, FinanceSync, BrowserFill, ClaudeSession,
        SequenceTheorems, TLAPS

-----------------------------------------------------------------------------
(* The obstacle ladder.                                                    *)

(* No red result yet while the ladder still climbs; the result in hand is  *)
(* the last one of the trail.                                              *)
StillClimbing ==
    rung # "done" =>
        /\ outcome = "none"
        /\ \A i \in DOMAIN trail : trail[i].result # "red"

LastInHand ==
    /\ rung # "try" => trail # <<>>
    /\ trail # <<>> => trail[Len(trail)].result = last

(* How long the trail can be on each rung.                                 *)
TrailLength ==
    /\ rung = "try" => Len(trail) = 0 /\ Len(steps) = 0 /\ attempt = 0
    /\ rung \in {"replan", "approach"} =>
           Len(trail) <= 1 /\ Len(steps) = 0 /\ attempt = 0
    /\ rung = "decompose" => Len(trail) <= 2 /\ Len(steps) = 0 /\ attempt = 0
    /\ rung = "retry" => attempt < MaxRetries
    /\ BoundedWork

LadderInv ==
    /\ LadderTypeOK
    /\ StillClimbing
    /\ LastInHand
    /\ TrailLength
    /\ RedEndsLadder
    /\ SuccessIsReal

(* What a dispatch appends to the trail.                                   *)
LEMMA TrailGrows ==
    ASSUME LadderTypeOK, NEW c \in LadderCalls, NEW r \in Result, DispatchFor(c, r)
    PROVE  /\ trail' \in Seq(Entry)
           /\ Len(trail') = Len(trail) + 1
           /\ trail'[Len(trail')].result = r
           /\ trail' # <<>>
           /\ \A i \in DOMAIN trail' :
                 i = Len(trail') \/ (i \in DOMAIN trail /\ trail'[i] = trail[i])
<1> DEFINE e == [at |-> rung, call |-> c, result |-> r]
<1>1. e \in Entry /\ trail \in Seq(Entry) /\ trail' = Append(trail, e)
  BY DEF LadderTypeOK, DispatchFor, Entry
<1>2. /\ Append(trail, e) \in Seq(Entry)
      /\ Len(Append(trail, e)) = Len(trail) + 1
      /\ \A i \in 1..Len(trail) : Append(trail, e)[i] = trail[i]
      /\ Append(trail, e)[Len(trail) + 1] = e
  BY <1>1, AppendProperties
<1>3. e.result = r
  OBVIOUS
<1>4. Len(trail) \in Nat /\ DOMAIN trail = 1..Len(trail)
      /\ DOMAIN trail' = 1..Len(trail')
  BY <1>1, <1>2, LenProperties
<1>5. trail' # <<>>
  BY <1>1, <1>2, <1>4, EmptySeq
<1> QED
  BY <1>1, <1>2, <1>3, <1>4, <1>5

(* The first rung.                                                         *)
LEMMA InitLadder == LadderInit => LadderInv
<1> SUFFICES ASSUME LadderInit PROVE LadderInv
  OBVIOUS
<1>1. trail = <<>> /\ steps = <<>> /\ Len(trail) = 0 /\ Len(steps) = 0
      /\ trail \in Seq(Entry) /\ steps \in Seq(LadderCalls)
  BY EmptySeq DEF LadderInit
<1>2. LadderTypeOK
  BY <1>1, MaxRetriesNat DEF LadderInit, LadderTypeOK, Rung, Result, Outcome
<1>3. DOMAIN trail = {}
  BY <1>1
<1> QED
  BY <1>1, <1>2, <1>3, MaxRetriesNat, MaxStepsNat
     DEF LadderInit, LadderInv, StillClimbing, LastInHand, TrailLength,
         BoundedWork, RedEndsLadder, SuccessIsReal

(* What a dispatch that is answered, or climbs on, leaves behind.          *)
LEMMA DispatchKeeps ==
    ASSUME LadderInv, NEW c \in LadderCalls, NEW r \in Result, rung # "done",
           DispatchFor(c, r), rung' \in Rung, outcome' \in Outcome,
           \/ rung' = "done" /\ r = "ok" /\ outcome' = "success"
           \/ rung' = "done" /\ r = "red" /\ outcome' = "redEscalation"
           \/ rung' \notin {"done", "try"} /\ r # "red" /\ outcome' = outcome
    PROVE  (StillClimbing /\ LastInHand /\ RedEndsLadder /\ SuccessIsReal)'
<1>1. LadderTypeOK /\ StillClimbing
  BY DEF LadderInv
<1>2. /\ Len(trail') = Len(trail) + 1
      /\ trail'[Len(trail')].result = r
      /\ trail' # <<>>
      /\ \A i \in DOMAIN trail' :
            i = Len(trail') \/ (i \in DOMAIN trail /\ trail'[i] = trail[i])
  BY <1>1, TrailGrows
<1>3. \A i \in DOMAIN trail' : trail'[i].result = "red" => i = Len(trail') /\ r = "red"
  BY <1>1, <1>2 DEF StillClimbing
<1>4. StillClimbing'
  BY <1>1, <1>3 DEF StillClimbing
<1>5. LastInHand'
  BY <1>2 DEF LastInHand, DispatchFor
<1>6. RedEndsLadder'
  BY <1>3 DEF RedEndsLadder
<1>7. SuccessIsReal'
  BY <1>1, <1>2 DEF SuccessIsReal, StillClimbing
<1> QED
  BY <1>4, <1>5, <1>6, <1>7

(* Rungs that dispatch nothing.                                            *)
LEMMA QuietKeeps ==
    ASSUME LadderInv, rung \notin {"done", "try"},
           UNCHANGED <<trail, last>>,
           \/ rung' = "done" /\ outcome' = "success" /\ last = "ok"
           \/ rung' = "done" /\ outcome' \in {"recommendation", "rejected"}
           \/ rung' \notin {"done", "try"} /\ outcome' = outcome
    PROVE  (StillClimbing /\ LastInHand /\ RedEndsLadder /\ SuccessIsReal)'
  BY DEF LadderInv, StillClimbing, LastInHand, RedEndsLadder, SuccessIsReal

(* A decomposition is a sequence of at most MaxSteps calls.                *)
LEMMA DecompositionIsShort ==
    ASSUME NEW s \in Decomposition
    PROVE  s \in Seq(LadderCalls) /\ Len(s) \in Nat /\ Len(s) <= MaxSteps
<1>1. PICK n \in 0..MaxSteps : s \in [1..n -> LadderCalls]
  BY DEF Decomposition
<1>2. s \in Seq(LadderCalls) /\ Len(s) = n
  BY <1>1, MaxStepsNat
<1> QED
  BY <1>1, <1>2, MaxStepsNat

(* Every rung preserves the invariant.                                     *)
LEMMA NextLadder == LadderInv /\ [LadderNext]_ladderVars => LadderInv'
<1> SUFFICES ASSUME LadderInv, [LadderNext]_ladderVars PROVE LadderInv'
  OBVIOUS
<1> USE MaxRetriesNat, MaxStepsNat, BackoffBaseNat
<1>t. /\ LadderTypeOK /\ TrailLength
      /\ Len(trail) \in Nat /\ Len(steps) \in Nat /\ attempt \in Nat
  BY LenProperties DEF LadderInv, LadderTypeOK
<1>1. ASSUME NEW r \in Result, Try(r) PROVE LadderInv'
  <2>1. DispatchFor(goal, r) /\ rung = "try" /\ goal \in LadderCalls
        /\ Resolve(r, "replan") /\ UNCHANGED <<plan, steps, attempt>>
    BY <1>t, <1>1 DEF Try, LadderTypeOK
  <2>2. rung' \in {"done", "replan"} /\ outcome' \in Outcome
    BY <2>1, <1>t DEF Resolve, Answer, Climb, Outcome, LadderTypeOK
  <2>3. (StillClimbing /\ LastInHand /\ RedEndsLadder /\ SuccessIsReal)'
    BY <2>1, <2>2, DispatchKeeps DEF Resolve, Answer, Climb, IsRedGate, Rung
  <2>4. trail' \in Seq(Entry) /\ Len(trail') = Len(trail) + 1
    BY <2>1, <1>t, TrailGrows
  <2>5. LadderTypeOK'
    BY <2>1, <2>2, <2>4, <1>t DEF LadderTypeOK, DispatchFor, Rung
  <2>6. TrailLength'
    BY <2>1, <2>2, <2>4, <1>t DEF TrailLength, BoundedWork
  <2> QED
    BY <2>3, <2>5, <2>6 DEF LadderInv
<1>2. ASSUME NEW r \in Result, ApproachB(r) PROVE LadderInv'
  <2>1. DispatchFor(plan, r) /\ rung = "approach" /\ plan \in LadderCalls
        /\ Resolve(r, "decompose") /\ UNCHANGED <<plan, steps, attempt>>
    BY <1>t, <1>2 DEF ApproachB, LadderTypeOK
  <2>2. rung' \in {"done", "decompose"} /\ outcome' \in Outcome
    BY <2>1, <1>t DEF Resolve, Answer, Climb, Outcome, LadderTypeOK
  <2>3. (StillClimbing /\ LastInHand /\ RedEndsLadder /\ SuccessIsReal)'
    BY <2>1, <2>2, DispatchKeeps DEF Resolve, Answer, Climb, IsRedGate, Rung
  <2>4. trail' \in Seq(Entry) /\ Len(trail') = Len(trail) + 1
    BY <2>1, <1>t, TrailGrows
  <2>5. LadderTypeOK'
    BY <2>1, <2>2, <2>4, <1>t DEF LadderTypeOK, DispatchFor, Rung
  <2>6. TrailLength'
    BY <2>1, <2>2, <2>4, <1>t DEF TrailLength, BoundedWork
  <2> QED
    BY <2>3, <2>5, <2>6 DEF LadderInv
<1>3. ASSUME NEW r \in Result, Step(r) PROVE LadderInv'
  <2>1. /\ steps \in Seq(LadderCalls) /\ steps # <<>>
        /\ DispatchFor(Head(steps), r) /\ steps' = Tail(steps)
        /\ rung = "step" /\ UNCHANGED <<plan, attempt>>
    BY <1>t, <1>3 DEF Step, LadderTypeOK
  <2>2. Head(steps) \in LadderCalls /\ Tail(steps) \in Seq(LadderCalls)
        /\ Len(Tail(steps)) = Len(steps) - 1
    BY <2>1, HeadTailProperties
  <2>3. rung' \in {"done", "step", "backoff"} /\ outcome' \in Outcome
    BY <1>3, <1>t DEF Step, Answer, Climb, Outcome, LadderTypeOK
  <2>4. (StillClimbing /\ LastInHand /\ RedEndsLadder /\ SuccessIsReal)'
    <3>1. \/ rung' = "done" /\ r = "red" /\ outcome' = "redEscalation"
          \/ rung' \notin {"done", "try"} /\ r # "red" /\ outcome' = outcome
      BY <1>3 DEF Step, Answer, Climb, IsRedGate
    <3> QED
      BY <2>1, <2>2, <2>3, <3>1, DispatchKeeps DEF Rung
  <2>5. trail' \in Seq(Entry) /\ Len(trail') = Len(trail) + 1
    BY <2>1, <2>2, <1>t, TrailGrows
  <2>6. LadderTypeOK'
    BY <2>1, <2>2, <2>3, <2>5, <1>t DEF LadderTypeOK, DispatchFor, Rung
  <2>7. TrailLength'
    BY <2>1, <2>2, <2>3, <2>5, <1>t DEF TrailLength, BoundedWork
  <2> QED
    BY <2>4, <2>6, <2>7 DEF LadderInv
<1>4. ASSUME NEW r \in Result, Retry(r) PROVE LadderInv'
  <2>1. DispatchFor(goal, r) /\ rung = "retry" /\ goal \in LadderCalls
        /\ Resolve(r, "backoff") /\ attempt' = attempt + 1 /\ UNCHANGED <<plan, steps>>
    BY <1>t, <1>4 DEF Retry, LadderTypeOK
  <2>2. rung' \in {"done", "backoff"} /\ outcome' \in Outcome
    BY <2>1, <1>t DEF Resolve, Answer, Climb, Outcome, LadderTypeOK
  <2>3. (StillClimbing /\ LastInHand /\ RedEndsLadder /\ SuccessIsReal)'
    BY <2>1, <2>2, DispatchKeeps DEF Resolve, Answer, Climb, IsRedGate, Rung
  <2>4. trail' \in Seq(Entry) /\ Len(trail') = Len(trail) + 1
    BY <2>1, <1>t, TrailGrows
  <2>5. attempt' \in 0..MaxRetries
    BY <2>1, <1>t DEF TrailLength
  <2>6. LadderTypeOK'
    BY <2>1, <2>2, <2>4, <2>5, <1>t DEF LadderTypeOK, DispatchFor, Rung
  <2>7. TrailLength'
    BY <2>1, <2>2, <2>4, <2>5, <1>t DEF TrailLength, BoundedWork
  <2> QED
    BY <2>3, <2>6, <2>7 DEF LadderInv
<1>5. ASSUME NEW c \in LadderCalls, Replan(c) PROVE LadderInv'
  <2>1. (StillClimbing /\ LastInHand /\ RedEndsLadder /\ SuccessIsReal)'
    BY <1>5, QuietKeeps DEF Replan, Climb
  <2>2. LadderTypeOK'
    BY <1>5, <1>t DEF Replan, Climb, LadderTypeOK, Rung
  <2>3. TrailLength'
    BY <1>5, <1>t DEF Replan, Climb, TrailLength, BoundedWork
  <2> QED
    BY <2>1, <2>2, <2>3 DEF LadderInv
<1>6. ASSUME NEW s \in Decomposition, Decompose(s) PROVE LadderInv'
  <2>0. s \in Seq(LadderCalls) /\ Len(s) \in Nat /\ Len(s) <= MaxSteps
    BY DecompositionIsShort
  <2>1. (StillClimbing /\ LastInHand /\ RedEndsLadder /\ SuccessIsReal)'
    BY <1>6, QuietKeeps DEF Decompose, Climb
  <2>2. LadderTypeOK'
    BY <1>6, <1>t, <2>0 DEF Decompose, Climb, LadderTypeOK, Rung
  <2>3. TrailLength'
    BY <1>6, <1>t, <2>0 DEF Decompose, Climb, TrailLength, BoundedWork
  <2> QED
    BY <2>1, <2>2, <2>3 DEF LadderInv
<1>7. CASE AllSteps
  <2>1. (StillClimbing /\ LastInHand /\ RedEndsLadder /\ SuccessIsReal)'
    BY <1>7, QuietKeeps DEF AllSteps, Answer, Climb, StepsCleared
  <2>2. LadderTypeOK'
    BY <1>7, <1>t DEF AllSteps, Answer, Climb, LadderTypeOK, Rung, Outcome
  <2>3. TrailLength'
    BY <1>7, <1>t DEF AllSteps, Answer, Climb, TrailLength, BoundedWork
  <2> QED
    BY <2>1, <2>2, <2>3 DEF LadderInv
<1>8. CASE Backoff
  <2>1. (StillClimbing /\ LastInHand /\ RedEndsLadder /\ SuccessIsReal)'
    BY <1>8, QuietKeeps DEF Backoff, Climb
  <2>2. LadderTypeOK'
    BY <1>8, <1>t DEF Backoff, Climb, LadderTypeOK, Rung
  <2>3. TrailLength'
    BY <1>8, <1>t DEF Backoff, Climb, TrailLength, BoundedWork, RetriesLeft
  <2> QED
    BY <2>1, <2>2, <2>3 DEF LadderInv
<1>9. CASE Recommend \/ BrainRejects
  <2>1. (StillClimbing /\ LastInHand /\ RedEndsLadder /\ SuccessIsReal)'
    BY <1>9, QuietKeeps DEF Recommend, BrainRejects, Answer
  <2>2. LadderTypeOK'
    BY <1>9, <1>t DEF Recommend, BrainRejects, Answer, LadderTypeOK, Rung, Outcome
  <2>3. TrailLength'
    BY <1>9, <1>t DEF Recommend, BrainRejects, Answer, TrailLength, BoundedWork
  <2> QED
    BY <2>1, <2>2, <2>3 DEF LadderInv
<1>10. CASE UNCHANGED ladderVars
  BY <1>10, <1>t DEF ladderVars, LadderInv, LadderTypeOK, StillClimbing, LastInHand,
      TrailLength, BoundedWork, RedEndsLadder, SuccessIsReal
<1> QED
  BY <1>1, <1>2, <1>3, <1>4, <1>5, <1>6, <1>7, <1>8, <1>9, <1>10 DEF LadderNext

(* Every state of every run of the ladder satisfies the invariant.         *)
THEOREM LadderInvariant == LadderSpec => []LadderInv
  BY InitLadder, NextLadder, PTL DEF LadderSpec

(* A call the breaker stopped is the last thing the ladder does.           *)
THEOREM BreakerEndsLadder == LadderSpec => []RedEndsLadder
<1>1. LadderInv => RedEndsLadder
  BY DEF LadderInv
<1> QED
  BY <1>1, LadderInvariant, PTL

(* Success is claimed only on a call that succeeded, the last one made.    *)
THEOREM NoHollowSuccess == LadderSpec => []SuccessIsReal
<1>1. LadderInv => SuccessIsReal
  BY DEF LadderInv
<1> QED
  BY <1>1, LadderInvariant, PTL

(* A run never dispatches more than its rungs allow.                       *)
THEOREM LadderIsBounded == LadderSpec => []BoundedWork
<1>1. LadderInv => BoundedWork
  BY DEF LadderInv, TrailLength
<1> QED
  BY <1>1, LadderInvariant, PTL

(* Every variable of the ladder keeps its type.                            *)
THEOREM LadderTypes == LadderSpec => []LadderTypeOK
<1>1. LadderInv => LadderTypeOK
  BY DEF LadderInv
<1> QED
  BY <1>1, LadderInvariant, PTL

-----------------------------------------------------------------------------
(* The finance tool.                                                       *)

Steps == {"idle", "find", "add", "open", "balances", "page", "answer"}

Calls == [at : Steps, op : {"balances", "transactions", "aggregate"}, key : Nat,
          seen : SUBSET Txns, pages : Nat, all : SUBSET Txns, more : BOOLEAN]

FinanceTypes ==
    /\ bank \in SUBSET Txns
    /\ keychain \in Nat /\ made \in Nat
    /\ store \in [key : Nat, accounts : BOOLEAN, rows : SUBSET Txns]
    /\ query \in Calls
    /\ told \in [rows : SUBSET Txns, all : SUBSET Txns, more : BOOLEAN]
    /\ misled \in BOOLEAN /\ unwritten \in SUBSET Nat

(* What is known of the key: a call that is about to add one knows there   *)
(* is none, and a call that opens the store holds the one in the Keychain, *)
(* or one that was taken for written.                                      *)
KeyInv ==
    /\ StoreOpens
    /\ query.at = "add" /\ ~misled => keychain = NoKey
    /\ query.at = "open" =>
          /\ query.key # NoKey
          /\ query.key = keychain \/ query.key \in unwritten

(* What is known of a sync at each step of it.                             *)
SyncInv ==
    /\ SyncIsComplete
    /\ query.at \in {"idle", "find", "add", "open", "balances"} => query.seen = {}
    /\ query.at = "balances" => query.all \subseteq bank
    /\ query.at = "page" => query.seen \subseteq store.rows /\ query.all \subseteq bank
    /\ query.at = "answer" =>
          \/ query.all \subseteq store.rows
          \/ query.more /\ query.pages >= MaxPages

FinanceInv == FinanceTypes /\ KeyInv /\ SyncInv

LEMMA NoQueryIsACall == NoQuery \in Calls /\ NoQuery.at = "idle" /\ NoQuery.seen = {}
  BY DEF NoQuery, NoKey, Calls, Steps

LEMMA FinanceStart == FinanceInit => FinanceInv
<1> SUFFICES ASSUME FinanceInit PROVE FinanceInv
  OBVIOUS
<1> USE DEF FinanceInit, NoStore, NothingTold, NoKey
<1>1. FinanceTypes
  BY NoQueryIsACall DEF FinanceTypes
<1>2. KeyInv
  BY NoQueryIsACall DEF KeyInv, StoreOpens
<1>3. SyncInv
  BY NoQueryIsACall DEF SyncInv, SyncIsComplete
<1> QED  BY <1>1, <1>2, <1>3 DEF FinanceInv

(* A call that ends, however, leaves nothing to be known of it.            *)
LEMMA CallEnds ==
  ASSUME FinanceInv, query' = NoQuery, UNCHANGED <<bank, store, keyVars>>,
         told' \in [rows : SUBSET Txns, all : SUBSET Txns, more : BOOLEAN],
         SyncIsComplete'
  PROVE  FinanceInv'
<1> USE DEF keyVars
<1>1. FinanceTypes'
  BY NoQueryIsACall DEF FinanceInv, FinanceTypes
<1>2. KeyInv'
  BY NoQueryIsACall DEF FinanceInv, KeyInv, StoreOpens
<1>3. SyncInv'
  BY NoQueryIsACall DEF SyncInv
<1> QED  BY <1>1, <1>2, <1>3 DEF FinanceInv

(* A page adds what it shows to what was seen and to the rows alike, so    *)
(* the last page has the store hold everything of the bank.                *)
LEMMA PageStep == FinanceInv /\ Page => FinanceInv'
<1> SUFFICES ASSUME FinanceInv, Page PROVE FinanceInv'
  OBVIOUS
<1> USE FinanceNats DEF keyVars
<1>1. PICK page \in SUBSET (bank \ query.seen) :
        LET seen == query.seen \cup page
            more == bank \ seen # {}
        IN  /\ store' = [store EXCEPT !.rows = @ \cup page]
            /\ query' = [query EXCEPT
                  !.seen = seen, !.pages = @ + 1, !.more = more,
                  !.at = IF more /\ PagesLeft(query.pages + 1) THEN "page" ELSE "answer"]
  BY DEF Page
<1>2. query.at = "page" /\ UNCHANGED <<bank, told, keyVars>>
  BY DEF Page, At
<1>3. FinanceTypes'
  <2>1. query.seen \cup page \in SUBSET Txns /\ query.pages + 1 \in Nat
    BY DEF FinanceInv, FinanceTypes, Calls
  <2>2. query' \in Calls
    BY <1>1, <2>1 DEF FinanceInv, FinanceTypes, Calls, Steps
  <2>3. store' \in [key : Nat, accounts : BOOLEAN, rows : SUBSET Txns]
    BY <1>1 DEF FinanceInv, FinanceTypes
  <2> QED  BY <1>2, <2>2, <2>3 DEF FinanceInv, FinanceTypes
<1>4. KeyInv'
  BY <1>1, <1>2 DEF FinanceInv, FinanceTypes, KeyInv, StoreOpens, Calls, Steps, NoKey
<1>5. SyncIsComplete'
  BY <1>2 DEF FinanceInv, SyncInv, SyncIsComplete
<1>6. query.seen' \subseteq store.rows' /\ query.all' \subseteq bank'
  BY <1>1, <1>2 DEF FinanceInv, FinanceTypes, SyncInv, Calls
<1>7. query'.at = "answer" =>
         query'.all \subseteq store'.rows \/ (query'.more /\ query'.pages >= MaxPages)
  <2>1. query'.more <=> bank \ query'.seen # {}
    BY <1>1 DEF FinanceInv, FinanceTypes, Calls
  <2>2. query'.at = "answer" /\ query'.more => ~PagesLeft(query.pages + 1)
    BY <1>1 DEF FinanceInv, FinanceTypes, Calls
  <2>3. query'.pages = query.pages + 1 /\ query.pages \in Nat
    BY <1>1 DEF FinanceInv, FinanceTypes, Calls
  <2>4. ~PagesLeft(query.pages + 1) => query'.pages >= MaxPages
    BY <2>3 DEF PagesLeft
  <2>5. query'.seen \subseteq store'.rows /\ query'.all \subseteq bank
    BY <1>6, <1>2
  <2>6. ~query'.more => query'.all \subseteq store'.rows
    BY <2>1, <2>5
  <2> QED  BY <2>2, <2>4, <2>6
<1>8. query'.at \in {"page", "answer"}
  BY <1>1 DEF FinanceInv, FinanceTypes, Calls
<1> QED  BY <1>3, <1>4, <1>5, <1>6, <1>7, <1>8 DEF FinanceInv, SyncInv

LEMMA FinanceStep == FinanceInv /\ [FinanceNext]_financeVars => FinanceInv'
<1> SUFFICES ASSUME FinanceInv, [FinanceNext]_financeVars PROVE FinanceInv'
  OBVIOUS
<1> USE FinanceNats DEF NoKey, At, keyVars
<1>1. ASSUME NEW op \in {"balances", "transactions", "aggregate"}, Query(op)
      PROVE FinanceInv'
  BY <1>1 DEF Query, NoQuery, NothingTold, FinanceInv, FinanceTypes, KeyInv, SyncInv,
              StoreOpens, SyncIsComplete, Calls, Steps
<1>2. CASE FindKey
  <2> PICK exited \in BOOLEAN :
         /\ misled' = (misled \/ (keychain # NoKey /\ ~exited))
         /\ query' = IF Found(exited)
                     THEN [query EXCEPT !.at = "open", !.key = keychain]
                     ELSE [query EXCEPT !.at = "add"]
    BY <1>2 DEF FindKey
  <2>1. query.at = "find" /\ UNCHANGED <<bank, keychain, made, store, told, unwritten>>
    BY <1>2 DEF FindKey
  <2>2. FinanceTypes'
    BY <2>1 DEF FinanceInv, FinanceTypes, Calls, Steps
  <2>3. KeyInv'
    BY <2>1 DEF Found, FinanceInv, FinanceTypes, KeyInv, StoreOpens, Calls, Steps
  <2>4. SyncInv'
    BY <2>1 DEF FinanceInv, FinanceTypes, SyncInv, SyncIsComplete, Calls, Steps
  <2> QED  BY <2>2, <2>3, <2>4 DEF FinanceInv
<1>3. CASE AddKey
  <2>0. made + 1 \in Nat
    BY DEF FinanceInv, FinanceTypes
  <2>1. FinanceTypes'
    BY <1>3, <2>0 DEF AddKey, FinanceInv, FinanceTypes, Calls, Steps
  <2>2. ~misled => store.key = NoKey \/ store.key \in unwritten
    BY <1>3 DEF AddKey, FinanceInv, KeyInv, StoreOpens
  <2>3. KeyInv'
    <3>1. /\ made' = made + 1 /\ UNCHANGED <<store, misled>>
          /\ query' = [query EXCEPT !.at = "open", !.key = made + 1]
          /\ unwritten \subseteq unwritten'
          /\ keychain' = made + 1 \/ made + 1 \in unwritten'
      BY <1>3 DEF AddKey
    <3>2. query'.at = "open" /\ query'.key = made + 1 /\ made + 1 # NoKey
      BY <3>1 DEF FinanceInv, FinanceTypes, Calls
    <3>3. StoreOpens'
      BY <2>2, <3>1 DEF StoreOpens
    <3> QED  BY <3>1, <3>2, <3>3 DEF KeyInv
  <2>4. SyncInv'
    BY <1>3 DEF AddKey, FinanceInv, FinanceTypes, SyncInv, SyncIsComplete, Calls, Steps
  <2> QED  BY <2>1, <2>3, <2>4 DEF FinanceInv
<1>4. CASE OpenStore
  <2>1. query.at = "open" /\ UNCHANGED <<bank, told, keyVars>>
    BY <1>4 DEF OpenStore
  <2>2. CASE store.key \notin {NoKey, query.key}
    <3>1. query' = NoQuery /\ UNCHANGED store
      BY <1>4, <2>2 DEF OpenStore
    <3> QED  BY <2>1, <3>1, CallEnds DEF FinanceInv, FinanceTypes, SyncInv, SyncIsComplete
  <2>3. CASE store.key \in {NoKey, query.key}
    <3>1. store' = [store EXCEPT !.key = query.key]
      BY <1>4, <2>3 DEF OpenStore
    <3>2. PICK step \in {"balances", "answer"} :
             query' = [query EXCEPT !.at = step,
                                    !.all = IF step = "balances" THEN bank ELSE {}]
      BY <1>4, <2>3 DEF OpenStore
    <3>3. FinanceTypes'
      BY <2>1, <3>1, <3>2 DEF FinanceInv, FinanceTypes, Calls, Steps
    <3>4. KeyInv'
      BY <2>1, <3>1, <3>2 DEF FinanceInv, FinanceTypes, KeyInv, StoreOpens, Calls, Steps
    <3>5. SyncInv'
      BY <2>1, <3>1, <3>2 DEF FinanceInv, FinanceTypes, SyncInv, SyncIsComplete, Calls, Steps
    <3> QED  BY <3>3, <3>4, <3>5 DEF FinanceInv
  <2> QED  BY <2>2, <2>3
<1>5. CASE Balances
  BY <1>5 DEF Balances, FinanceInv, FinanceTypes, KeyInv, SyncInv, StoreOpens,
              SyncIsComplete, Calls, Steps
<1>6. CASE Page
  BY <1>6, PageStep
<1>7. CASE AddFails \/ PlaidFails \/ FinanceCrash
  BY <1>7, CallEnds DEF AddFails, PlaidFails, FinanceCrash, FinanceInv, FinanceTypes,
                        SyncInv, SyncIsComplete
<1>8. CASE TellRows
  <2>1. told' = [rows |-> store.rows, all |-> query.all,
                 more |-> query.more /\ query.pages >= MaxPages]
    BY <1>8 DEF TellRows
  <2>2. told' \in [rows : SUBSET Txns, all : SUBSET Txns, more : BOOLEAN]
    BY <2>1 DEF FinanceInv, FinanceTypes, Calls
  <2>3. query.at = "answer" /\ query' = NoQuery
        /\ UNCHANGED <<bank, store, keyVars>>
    BY <1>8 DEF TellRows
  <2>4. SyncIsComplete'
    BY <2>1, <2>3 DEF SyncIsComplete, FinanceInv, SyncInv
  <2> QED  BY <2>2, <2>3, <2>4, CallEnds
<1>9. CASE BankMoves
  <2> PICK booked \in Txns \ (bank \cup store.rows), settled \in SUBSET bank :
         /\ bank' = (bank \ settled) \cup {booked}
         /\ query' = [query EXCEPT !.all = @ \ settled]
         /\ UNCHANGED <<store, told, keyVars>>
    BY <1>9 DEF BankMoves
  <2>1. FinanceTypes'
    BY DEF FinanceInv, FinanceTypes, Calls, Steps
  <2>2. KeyInv'
    BY DEF FinanceInv, FinanceTypes, KeyInv, StoreOpens, Calls, Steps
  <2>3. SyncInv'
    BY DEF FinanceInv, FinanceTypes, SyncInv, SyncIsComplete, Calls, Steps
  <2> QED  BY <2>1, <2>2, <2>3 DEF FinanceInv
<1>10. CASE UNCHANGED financeVars
  BY <1>10 DEF financeVars, FinanceInv, FinanceTypes, KeyInv, SyncInv, StoreOpens,
               SyncIsComplete
<1> QED  BY <1>1, <1>2, <1>3, <1>4, <1>5, <1>6, <1>7, <1>8, <1>9, <1>10 DEF FinanceNext

LEMMA FinanceInvariant == FinanceSpec => []FinanceInv
  BY FinanceStart, FinanceStep, PTL DEF FinanceSpec

(* As long as no read of a key that is there fails, and no killed add was  *)
(* taken for done when the store was created, the Keychain's key opens the *)
(* store, through any number of failing or dying calls                     *)
(* (finance/keychain.ts:51, :74-114).                                      *)
THEOREM KeyIsNeverLost == FinanceSpec => []StoreOpens
<1>1. FinanceInv => StoreOpens
  BY DEF FinanceInv, KeyInv
<1> QED  BY <1>1, FinanceInvariant, PTL

(* The answer after a sync misses nothing that the bank has shown since it *)
(* began, unless the page limit was hit (tools/finance.ts:71-107).         *)
THEOREM SyncMissesNothing == FinanceSpec => []SyncIsComplete
<1>1. FinanceInv => SyncIsComplete
  BY DEF FinanceInv, SyncInv
<1> QED  BY <1>1, FinanceInvariant, PTL

-----------------------------------------------------------------------------
(* The browser's fill.                                                     *)

FillTypes ==
    /\ live \in BOOLEAN /\ field \in Fields \cup {NoField}
    /\ fill \in [at : {"idle", "probe", "label", "gate", "type"}, label : Labels,
                 hints : SUBSET Signals, saw : Fields \cup {NoField}]
    /\ typed \in [into : Fields \cup {NoField}, saw : Fields \cup {NoField}, label : Labels]

(* A fill carries the hints of the field that was read whole, and none of  *)
(* them is left once the gate has let it through.                          *)
FillInv ==
    /\ FillTypes
    /\ fill.at = "label" => fill.hints = DomHints(fill.saw)
    /\ fill.at \in {"gate", "type"} /\ fill.saw # NoField =>
          fill.hints = DomHints(fill.saw) \cup LabelHints(fill.saw, fill.label)
    /\ fill.at = "type" => fill.hints = {}
    /\ NoSeenSecretTyped

(* The hints of a field are signals the gate knows.                        *)
LEMMA HintsAreSignals ==
  ASSUME NEW f, NEW label
  PROVE  DomHints(f) \in SUBSET Signals /\ LabelHints(f, label) \in SUBSET Signals
BY DEF DomHints, LabelHints, Signals

(* A field without hints is none of those the property names.              *)
LEMMA UnhintedIsNoSecret ==
  ASSUME NEW f \in Fields, NEW label \in Labels,
         DomHints(f) \cup LabelHints(f, label) = {}
  PROVE  /\ f \notin {"password", "autocomplete"} /\ label # "secret"
         /\ f = "aria" => label = "plain"
BY DEF DomHints, LabelHints, Fields, Labels

(* The gate lets no fill through that carries a hint.                      *)
LEMMA HintedFillIsDenied ==
  ASSUME NEW hints, Authorize(FillCall(hints)) = "allow"
  PROVE  hints = {}
BY DEF Authorize, Forbidden, IsSecret, FillCall

(* Every step keeps the hints of a fill with what it saw.                  *)
LEMMA FillStep ==
  ASSUME FillInv, [FillNext]_fillVars
  PROVE  FillInv'
<1> USE DEF FillInv, FillTypes
<1>1. ASSUME NEW label \in Labels, Fill(label) PROVE FillInv'
  BY <1>1 DEF Fill, NoFill, NothingTyped, NoSeenSecretTyped, NoField, Labels
<1>2. CASE ProbeType \/ ProbeLabel \/ ProbeFails
  <2>1. UNCHANGED <<live, field, typed>>
    BY <1>2 DEF ProbeType, ProbeLabel, ProbeFails
  <2>2. CASE ProbeType
    <3>1. field # NoField /\ DomHints(field) \in SUBSET Signals
          /\ fill' = [fill EXCEPT !.at = "label", !.hints = DomHints(field), !.saw = field]
      BY <2>2, HintsAreSignals DEF ProbeType
    <3>2. QED
      BY <2>1, <3>1 DEF NoSeenSecretTyped
  <2>3. CASE ProbeLabel
    <3>1. PICK f \in {fill.saw, field} :
             fill' = [fill EXCEPT !.at = "gate",
                                  !.hints = fill.hints \cup LabelHints(f, fill.label),
                                  !.saw = IF f = fill.saw THEN f ELSE NoField]
      BY <2>3 DEF ProbeLabel
    <3>2. fill.hints = DomHints(fill.saw) /\ LabelHints(f, fill.label) \in SUBSET Signals
      BY <2>3, HintsAreSignals DEF ProbeLabel
    <3>3. QED
      BY <2>1, <3>1, <3>2 DEF NoSeenSecretTyped
  <2>4. CASE ProbeFails
    BY <2>1, <2>4 DEF ProbeFails, NoSeenSecretTyped
  <2>5. QED
    BY <1>2, <2>2, <2>3, <2>4
<1>3. CASE FillGate
  <2>1. CASE Authorize(FillCall(fill.hints)) = "allow"
    <3>1. fill.hints = {} /\ fill.at = "gate"
          /\ fill' = [fill EXCEPT !.at = "type"] /\ UNCHANGED <<live, field, typed>>
      BY <1>3, <2>1, HintedFillIsDenied DEF FillGate
    <3>2. QED
      BY <3>1 DEF NoSeenSecretTyped
  <2>2. CASE Authorize(FillCall(fill.hints)) # "allow"
    BY <1>3, <2>2 DEF FillGate, NoFill, NoField, Labels, NoSeenSecretTyped
  <2>3. QED
    BY <2>1, <2>2
<1>4. CASE Type
  <2>1. /\ fill.at = "type" /\ field # NoField
        /\ typed' = [into |-> field, saw |-> fill.saw, label |-> fill.label]
        /\ fill' = NoFill /\ UNCHANGED <<live, field>>
    BY <1>4 DEF Type
  <2>2. NoSeenSecretTyped'
    <3>1. SUFFICES ASSUME field = fill.saw
                   PROVE  /\ field \notin {"password", "autocomplete"}
                          /\ fill.label # "secret"
                          /\ field = "aria" => fill.label = "plain"
      BY <2>1 DEF NoSeenSecretTyped
    <3>2. DomHints(field) \cup LabelHints(field, fill.label) = {}
      BY <2>1, <3>1
    <3>3. field \in Fields /\ fill.label \in Labels
      BY <2>1
    <3>4. QED
      BY <3>2, <3>3, UnhintedIsNoSecret
  <2>3. FillTypes'
    BY <2>1 DEF NoFill, NoField, Labels
  <2>4. QED
    BY <2>1, <2>2, <2>3 DEF NoFill
<1>5. CASE TypeFails
  BY <1>5 DEF TypeFails, NoFill, NoField, Labels, NoSeenSecretTyped
<1>6. CASE PageMoves
  BY <1>6 DEF PageMoves, NoSeenSecretTyped
<1>7. CASE UNCHANGED fillVars
  BY <1>7 DEF fillVars, NoSeenSecretTyped
<1>8. QED
  BY <1>1, <1>2, <1>3, <1>4, <1>5, <1>6, <1>7 DEF FillNext

(* Nothing is typed into a field that the adapter has read to be a         *)
(* credential, by its attributes or by the label the call gives it,        *)
(* however the page moves and wherever the probe fails.                    *)
THEOREM SeenSecretsStayEmpty == FillSpec => []NoSeenSecretTyped
<1>1. FillInit => FillInv
  BY DEF FillInit, FillInv, FillTypes, NoFill, NothingTyped, NoField, Labels, NoSeenSecretTyped
<1>2. FillInv /\ [FillNext]_fillVars => FillInv'
  BY FillStep
<1>3. FillInv => NoSeenSecretTyped
  BY DEF FillInv
<1>4. QED
  BY <1>1, <1>2, <1>3, PTL DEF FillSpec

-----------------------------------------------------------------------------
(* A Claude Code session.                                                  *)

SessionTypes ==
    /\ session \in [at : {"idle", "stream", "regate"}, denials : Seq(Entries)]
    /\ output \in Seq(LineKind)
    /\ blocked \in Seq(Entries) /\ regated \in Seq(Entries)

(* What was printed as blocked is what was given to dispatch, then what    *)
(* the session has still to give.                                          *)
SessionInv ==
    /\ SessionTypes
    /\ session.at # "idle" => blocked = regated \o session.denials
    /\ session.at = "stream" => regated = <<>>
    /\ session.at = "idle" => IsPrefix(regated, blocked) /\ GivenToTheEnd

(* Moving the first denial to the end of what was given moves nothing else.*)
LEMMA HeadMoves ==
  ASSUME NEW S, NEW s \in Seq(S), NEW t \in Seq(S), t # <<>>
  PROVE  /\ Append(s, Head(t)) \in Seq(S) /\ Tail(t) \in Seq(S)
         /\ Append(s, Head(t)) \o Tail(t) = s \o t
OBVIOUS

(* The first part of a sequence is a prefix of it.                         *)
LEMMA ConcatIsPrefix ==
  ASSUME NEW S, NEW s \in Seq(S), NEW t \in Seq(S)
  PROVE  IsPrefix(s, s \o t)
BY DEF IsPrefix

(* The first of what is left is the next one after what was given.         *)
LEMMA HeadIsNext ==
  ASSUME NEW S, NEW s \in Seq(S), NEW t \in Seq(S), t # <<>>
  PROVE  Len(s) < Len(s \o t) /\ (s \o t)[Len(s) + 1] = Head(t)
OBVIOUS

(* The denials of a line are entries.                                      *)
LEMMA DenialsTyped ==
  ASSUME NEW line
  PROVE  DenialsOf(line) \subseteq Seq(Entries)
BY DeniedAreSeqs, EmptySeq DEF DenialsOf

(* Every step accounts for each denial.                                    *)
LEMMA SessionStep ==
  ASSUME SessionInv, [SessionNext]_sessionVars
  PROVE  SessionInv'
<1>t. /\ session \in [at : {"idle", "stream", "regate"}, denials : Seq(Entries)]
      /\ blocked \in Seq(Entries) /\ regated \in Seq(Entries)
  BY DEF SessionInv, SessionTypes
<1> USE DEF SessionInv, SessionTypes
<1>1. ASSUME NEW script \in Scripts, StartSession(script) PROVE SessionInv'
  <2>1. /\ session' = [at |-> "stream", denials |-> <<>>]
        /\ output' = script /\ blocked' = <<>> /\ regated' = <<>>
    BY <1>1 DEF StartSession, NoSession
  <2>2. QED
    BY <2>1, ScriptsAreLines, EmptySeq
<1>2. CASE Line
  <2> PICK new \in DenialsOf(Head(output)) :
         /\ session' = [session EXCEPT !.denials = session.denials \o new]
         /\ blocked' = blocked \o new
    BY <1>2 DEF Line
  <2>1. /\ session.at = "stream" /\ output # <<>> /\ output' = Tail(output)
        /\ session' = [session EXCEPT !.denials = session.denials \o new]
        /\ blocked' = blocked \o new /\ regated' = regated
    BY <1>2 DEF Line
  <2>2. new \in Seq(Entries)
    BY DenialsTyped
  <2>3. blocked = session.denials /\ output' \in Seq(LineKind)
    BY <2>1, HeadTailProperties, ConcatEmptySeq
  <2>4. session'.denials = session.denials \o new /\ session'.at = "stream"
        /\ session' \in [at : {"idle", "stream", "regate"}, denials : Seq(Entries)]
    <3> HIDE DEF SessionInv, SessionTypes
    <3>1. session.denials \o new \in Seq(Entries)
      BY <1>t, <2>2, ConcatProperties
    <3>2. QED
      BY <1>t, <2>1, <3>1
  <2>5. blocked' \in Seq(Entries) /\ regated' = <<>>
        /\ blocked' = regated' \o session'.denials
    BY <2>1, <2>2, <2>3, <2>4, ConcatEmptySeq, ConcatProperties
  <2>6. session'.at # "idle"
    BY <2>4
  <2> HIDE DEF SessionInv, SessionTypes
  <2>7. QED
    BY <2>3, <2>4, <2>5, <2>6, EmptySeq DEF SessionInv, SessionTypes
<1>3. CASE Killed
  BY <1>3, EmptySeq DEF Killed
<1>4. CASE Closed
  BY <1>4 DEF Closed
<1>5. CASE Regate
  <2>1. /\ session.at = "regate" /\ session.denials # <<>>
        /\ regated' = Append(regated, Head(session.denials))
        /\ session' = [session EXCEPT !.denials = Tail(session.denials)]
        /\ UNCHANGED <<output, blocked>>
    BY <1>5 DEF Regate, AfterThrow
  <2>2. /\ regated' \in Seq(Entries) /\ Tail(session.denials) \in Seq(Entries)
        /\ regated' \o Tail(session.denials) = blocked
    <3> HIDE DEF SessionInv, SessionTypes
    <3>1. blocked = regated \o session.denials
      BY <2>1 DEF SessionInv
    <3>2. session.denials \in Seq(Entries)
      BY <1>t
    <3>3. QED
      BY <1>t, <2>1, <3>1, <3>2, HeadMoves
  <2>3. session'.at = "regate" /\ session'.denials = Tail(session.denials)
        /\ session' \in [at : {"idle", "stream", "regate"}, denials : Seq(Entries)]
    <3> HIDE DEF SessionInv, SessionTypes
    <3>1. QED
      BY <1>t, <2>1, <2>2
  <2>4. output' \in Seq(LineKind) /\ blocked' \in Seq(Entries)
        /\ blocked' = regated' \o session'.denials
    BY <2>1, <2>2, <2>3
  <2> HIDE DEF SessionInv, SessionTypes
  <2>5. QED
    BY <2>2, <2>3, <2>4 DEF SessionInv, SessionTypes
<1>6. CASE EndSession \/ MappingThrows
  <2>1. /\ session.at = "regate" /\ session' = [at |-> "idle", denials |-> <<>>]
        /\ UNCHANGED <<output, blocked, regated>>
    BY <1>6 DEF EndSession, MappingThrows, NoSession
  <2>2. blocked = regated \o session.denials
        /\ regated \in Seq(Entries) /\ session.denials \in Seq(Entries)
    BY <2>1
  <2>3. IsPrefix(regated, blocked)
    BY <2>2, ConcatIsPrefix
  <2>4. CASE EndSession
    <3>1. regated = blocked
      BY <2>2, <2>4, ConcatEmptySeq DEF EndSession
    <3>2. QED
      BY <2>1, <2>3, <3>1, EmptySeq DEF GivenToTheEnd
  <2>5. CASE MappingThrows
    <3>1. session.denials # <<>> /\ Head(session.denials) \in Malformed
      BY <2>5 DEF MappingThrows
    <3>2. GivenToTheEnd
      BY <2>2, <3>1, HeadIsNext DEF GivenToTheEnd
    <3>3. QED
      BY <2>1, <2>3, <3>2, EmptySeq DEF GivenToTheEnd
  <2>6. QED
    BY <1>6, <2>4, <2>5
<1>7. CASE AppendTranscript \/ TogglePause \/ UNCHANGED sessionVars
  BY <1>7 DEF AppendTranscript, TogglePause, sessionVars, GivenToTheEnd
<1>8. QED
  BY <1>1, <1>2, <1>3, <1>4, <1>5, <1>6, <1>7 DEF SessionNext

(* What the deny rules blocked is given to dispatch, each once and in      *)
(* order, whatever the process prints and whichever dispatch throws, up to *)
(* the first denial that cannot be mapped.                                 *)
THEOREM NoDenialIsLost == SessionSpec => []DenialsRegated
<1>1. SessionInit => SessionInv
  <2> SUFFICES ASSUME SessionInit PROVE SessionInv
    OBVIOUS
  <2>1. <<>> \in Seq(Entries) /\ <<>> \o <<>> = <<>>
    BY EmptySeq, ConcatEmptySeq
  <2>2. IsPrefix(<<>>, <<>>)
    BY <2>1, ConcatIsPrefix
  <2>3. QED
    BY <2>1, <2>2, EmptySeq DEF SessionInit, SessionInv, SessionTypes, NoSession, GivenToTheEnd
<1>2. SessionInv /\ [SessionNext]_sessionVars => SessionInv'
  BY SessionStep
<1>3. SessionInv => DenialsRegated
  <2> SUFFICES ASSUME SessionInv PROVE DenialsRegated
    OBVIOUS
  <2>1. regated \in Seq(Entries) /\ session.denials \in Seq(Entries)
    BY DEF SessionInv, SessionTypes
  <2>2. IsPrefix(regated, blocked)
    BY <2>1, ConcatIsPrefix DEF SessionInv
  <2>3. QED
    BY <2>2 DEF SessionInv, DenialsRegated
<1>4. QED
  BY <1>1, <1>2, <1>3, PTL DEF SessionSpec
===============================================================================
