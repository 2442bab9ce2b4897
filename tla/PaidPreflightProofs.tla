------------------------ MODULE PaidPreflightProofs -------------------------
(***************************************************************************)
(* The payment path's safety for every set of requests, keys, bodies,      *)
(* proofs and authorizations and every choice of time limits that          *)
(* satisfies PaidAssumption.  The window and the tombstone carry           *)
(* AtMostOneSubmission; AnswerInv, StoredInv, ReplayedInv and HolderInv    *)
(* the other invariants; all of them together the refinement of            *)
(* PaidPromise.                                                            *)
(***************************************************************************)
EXTENDS PaidPreflight, TLAPS

(* A request that has passed the window check and is not submitted yet     *)
(* knows how far its authorization's validity reaches.                     *)
WindowInv ==
    \A r \in Req :
        /\ pc[r] \in {"idle", "verify", "source"} => wire[r] = "none"
        /\ pc[r] \in {"verify", "source"} =>
              /\ job[r].at <= now
              /\ job[r].at < ValidBefore[AuthFor(r)]
              /\ ValidBefore[AuthFor(r)] <= job[r].at + MaxSkew + MaxTimeout
        /\ pc[r] = "verify" => now <= job[r].at + VerifyBound
        /\ Submitted(r) => pc[r] # "idle" /\ job[r].proof \in Proof

(* A submitted authorization is never merely reserved again, and its       *)
(* tombstone lives until no request can get past the window check.         *)
TombstoneInv ==
    \A r \in Req : Submitted(r) =>
        LET e == claims[AuthFor(r)] IN
        /\ e.state # "reserved"
        /\ now < ValidBefore[AuthFor(r)] + VerifyBound =>
              /\ e.state = "complete" /\ e.token = r
              /\ e.expires >= ValidBefore[AuthFor(r)] + VerifyBound

(* The entry a handler at work holds, in full.                             *)
KeyInv ==
    \A r \in Req : (Active(r) /\ now < job[r].at + ReservationTTL) =>
        results[job[r].key] = Reserved(job[r].body, r,
                                       job[r].at + ReservationTTL,
                                       ResultLimits.hold)
-----------------------------------------------------------------------------
(* The three things the stores put under a key are entries.                *)
LEMMA EntryForms ==
    /\ Absent \in Entry /\ Absent.state = "absent"
    /\ \A b \in Body, r \in Req, x \in Nat, h \in Nat :
          /\ Reserved(b, r, x, h) \in Entry
          /\ Reserved(b, r, x, h).state = "reserved"
    /\ \A e \in Entry, o \in Outcome, x \in Nat :
          /\ Completed(e, o, x) \in Entry
          /\ Completed(e, o, x).resp = o
          /\ Completed(e, o, x).state = "complete"
          /\ Completed(e, o, x).fp = e.fp /\ Completed(e, o, x).token = e.token
          /\ Completed(e, o, x).expires = x
  <1>1. Absent \in Entry /\ Absent.state = "absent"
    BY DEF Absent, Entry, States
  <1>2. ASSUME NEW b \in Body, NEW r \in Req, NEW x \in Nat, NEW h \in Nat
        PROVE  /\ Reserved(b, r, x, h) \in Entry
               /\ Reserved(b, r, x, h).state = "reserved"
    BY DEF Reserved, Entry, States
  <1>3. ASSUME NEW e \in Entry, NEW o \in Outcome, NEW x \in Nat
        PROVE  /\ Completed(e, o, x) \in Entry
               /\ Completed(e, o, x).resp = o
               /\ Completed(e, o, x).state = "complete"
               /\ Completed(e, o, x).fp = e.fp /\ Completed(e, o, x).token = e.token
               /\ Completed(e, o, x).expires = x
    BY DEF Completed, Entry, States
  <1>4. QED
    BY <1>1, <1>2, <1>3

(* abort(), commit(), the sweep and reserve() keep a ledger well formed.   *)
LEMMA LedgerForms ==
    ASSUME NEW S, NEW L, WellFormed(L, S)
    PROVE  /\ \A k \in S, b \in Body, r \in Req :
                 WellFormed(Release(L, k, b, r), S)
           /\ \A k \in S, b \in Body, r \in Req, o \in Outcome :
                 now + ClaimTTL \in Nat => WellFormed(Commit(L, k, b, r, o), S)
           /\ \A t \in Nat : WellFormed(Purge(L, t), S)
           /\ \A k \in S, b \in Body, r \in Req, x \in Nat, h \in Nat :
                 WellFormed([L EXCEPT ![k] = Reserved(b, r, x, h)], S)
  <1>1. ASSUME NEW k \in S, NEW e \in Entry,
               e.state = "complete" => e.resp \in Outcome
        PROVE  WellFormed([L EXCEPT ![k] = e], S)
    BY <1>1 DEF WellFormed
  <1>2. ASSUME NEW k \in S, NEW b \in Body, NEW r \in Req
        PROVE  WellFormed(Release(L, k, b, r), S)
    BY <1>1, EntryForms DEF Release, WellFormed
  <1>3. ASSUME NEW k \in S, NEW b \in Body, NEW r \in Req, NEW o \in Outcome,
               now + ClaimTTL \in Nat
        PROVE  WellFormed(Commit(L, k, b, r, o), S)
    BY <1>1, <1>3, EntryForms DEF Commit, WellFormed
  <1>4. ASSUME NEW t \in Nat
        PROVE  WellFormed(Purge(L, t), S)
    <2>1. DOMAIN L = S
      BY DEF WellFormed
    <2>2. QED
      BY <2>1, EntryForms DEF Purge, WellFormed
  <1>5. ASSUME NEW k \in S, NEW b \in Body, NEW r \in Req, NEW x \in Nat,
               NEW h \in Nat
        PROVE  WellFormed([L EXCEPT ![k] = Reserved(b, r, x, h)], S)
    BY <1>1, EntryForms
  <1>6. QED
    BY <1>2, <1>3, <1>4, <1>5

(* An admitted request's job names a key, a body and a proof.              *)
LEMMA JobForms ==
    ASSUME TypeOK, NEW r \in Req, Active(r)
    PROVE  /\ job[r].key \in Key /\ job[r].body \in Body
           /\ job[r].proof \in Proof /\ AuthFor(r) \in Auth
  BY PaidAssumption DEF TypeOK, AuthFor

(* The answers of a claim store that already has the authorization.        *)
ClaimAnswers == {"claim_used", "claim_conflict", "claim_in_progress"}

LEMMA ClaimRefusalForms ==
    ASSUME TypeOK, NEW r \in Req, Active(r), ClaimState(r) # "fresh"
    PROVE  /\ ClaimRefusals[ClaimState(r)] \in ClaimAnswers
           /\ ClaimRefusals[ClaimState(r)] = "claim_in_progress" =>
                 claims[AuthFor(r)].state = "reserved"
  <1>1. claims[AuthFor(r)].state \in States
    BY JobForms DEF TypeOK, WellFormed, Entry
  <1>2. \/ ClaimState(r) = "conflict"
        \/ ClaimState(r) = "replay"
        \/ ClaimState(r) = "in_progress" /\ claims[AuthFor(r)].state = "reserved"
    BY <1>1 DEF ClaimState, Lookup, IsPresent, States
  <1>3. QED
    BY <1>2 DEF ClaimRefusals, ClaimAnswers

(* The parts of TypeOK that do not concern the ledgers.                    *)
HandlersOK ==
    /\ now \in Nat /\ skew \in 0..MaxSkew
    /\ pc \in [Req -> {"idle", "verify", "source", "settle", "done", "cancelled"}]
    /\ job \in [Req -> Job]
    /\ wire \in [Req -> {"none", "submitted", "executed", "failed"}]
    /\ answer \in [Req -> Answers]
    /\ \A r \in Req : (Active(r) \/ job[r].key # None) =>
          job[r].key \in Key /\ job[r].body \in Body /\ job[r].proof \in Proof

(* Ending a request keeps the handlers' types.                             *)
LEMMA FinishForms ==
    ASSUME HandlersOK, NEW r \in Req, NEW ans \in Answers, Finish(r, ans),
           UNCHANGED <<now, skew, job, wire>>
    PROVE  HandlersOK'
  BY DEF HandlersOK, Finish, Active

(* Every step keeps the types.                                             *)
THEOREM TypeCorrect == Spec => []TypeOK
  <1>1. TypeOK <=> HandlersOK /\ WellFormed(results, Key) /\ WellFormed(claims, Auth)
    BY DEF TypeOK, HandlersOK
  <1>2. HandlersOK' /\ WellFormed(results', Key) /\ WellFormed(claims', Auth)
          => TypeOK'
    BY DEF TypeOK, HandlersOK, WellFormed
  <1>3. Init => TypeOK
    BY EntryForms, PaidAssumption
    DEF Init, TypeOK, WellFormed, NoJob, Job, Answers, Active
  <1>4. TypeOK /\ [Next]_vars => TypeOK'
    <2> SUFFICES ASSUME TypeOK, [Next]_vars PROVE TypeOK'
      OBVIOUS
    <2>a. now \in Nat /\ now + ReservationTTL \in Nat /\ now + ClaimTTL \in Nat
      BY PaidAssumption DEF TypeOK
    <2>b. ResultLimits.hold \in Nat /\ ClaimLimits.hold \in Nat
      BY LimitsAssumption DEF Limits
    <2>c. HandlersOK /\ WellFormed(results, Key) /\ WellFormed(claims, Auth)
      BY <1>1
    <2>1. ASSUME NEW r \in Req, NEW k \in Key, NEW b \in Body, NEW p \in Proof,
                 Arrive(r, k, b, p)
          PROVE  TypeOK'
      <3>1. WellFormed(claims', Auth) /\ UNCHANGED <<now, skew, wire>>
        BY <2>c, <2>1 DEF Arrive
      <3>2. CASE Collide(r, k, b, p)
        <4>1. Lookup(results[k], b) \in Answers
          BY <3>2 DEF Collide, Answers
        <4>2. HandlersOK'
          BY <2>c, <3>1, <3>2, <4>1, FinishForms DEF Collide
        <4>3. QED
          BY <1>2, <2>c, <3>1, <3>2, <4>2 DEF Collide
      <3>3. CASE TurnAway(r, k, b, p)
        <4>1. HandlersOK'
          <5>1. "rejected" \in Answers /\ "capacity" \in Answers
            BY DEF Answers
          <5>2. QED
            BY <2>c, <3>1, <3>3, <5>1, FinishForms DEF TurnAway
        <4>2. QED
          BY <1>2, <2>c, <3>1, <3>3, <4>1 DEF TurnAway
      <3>4. ASSUME NEW from \in Req \cup {None}, Accept(r, k, b, p, from)
            PROVE  /\ job' \in [Req -> Job]
                   /\ \A s \in Req : s # r => job'[s] = job[s]
                   /\ job'[r].key = k /\ job'[r].body = b /\ job'[r].proof = p
        BY <2>a, <2>c, <3>4 DEF Accept, HandlersOK, Job
      <3>5. CASE Replay(r, k, b, p)
        <4>1. results[k].resp.by \in Req
          <5>1. results[k].state = "complete"
            BY <2>c, <3>5 DEF Replay, Lookup, IsPresent, WellFormed, Entry, States
          <5>2. QED
            BY <2>c, <5>1 DEF WellFormed, Outcome
        <4>2. ReplayAnswer(results[k].resp, p) \in Answers
          BY DEF ReplayAnswer, Answers
        <4>3. HandlersOK'
          BY <2>c, <3>1, <3>4, <3>5, <4>1, <4>2
          DEF Replay, Finish, HandlersOK, Active
        <4>4. QED
          BY <1>2, <2>c, <3>1, <3>5, <4>3 DEF Replay
      <3>6. CASE Admit(r, k, b, p)
        <4>1. WellFormed(results', Key)
          BY <2>a, <2>b, <2>c, <3>6, LedgerForms DEF Admit
        <4>2. HandlersOK'
          BY <2>c, <3>1, <3>4, <3>6 DEF Admit, HandlersOK, Active
        <4>3. QED
          BY <1>2, <3>1, <4>1, <4>2
      <3>7. QED
        BY <2>1, <3>2, <3>3, <3>5, <3>6 DEF Arrive
    <2>2. ASSUME NEW r \in Req, NEW accepted \in BOOLEAN,
                 VerifyReturn(r, accepted)
          PROVE  TypeOK'
      <3>1. /\ job[r].key \in Key /\ job[r].body \in Body /\ AuthFor(r) \in Auth
            /\ UNCHANGED <<now, skew, job, wire>>
        BY <2>2, JobForms DEF VerifyReturn, Active
      <3>2. ASSUME NEW ans \in Answers, FailUnclaimed(r, ans)
            PROVE  TypeOK'
        <4>1. WellFormed(results', Key)
          BY <2>c, <3>1, <3>2, LedgerForms DEF FailUnclaimed
        <4>2. HandlersOK'
          BY <2>c, <3>1, <3>2, FinishForms DEF FailUnclaimed
        <4>3. QED
          BY <1>2, <2>c, <3>2, <4>1, <4>2 DEF FailUnclaimed
      <3>3. CASE Claim(r)
        <4>1. WellFormed(claims', Auth)
          BY <2>a, <2>b, <2>c, <3>1, <3>3, LedgerForms DEF Claim
        <4>2. HandlersOK'
          BY <2>2, <2>c, <3>1, <3>3 DEF Claim, VerifyReturn, HandlersOK, Active
        <4>3. QED
          BY <1>2, <2>c, <3>3, <4>1, <4>2 DEF Claim
      <3>4. ClaimState(r) # "fresh" => ClaimRefusals[ClaimState(r)] \in Answers
        BY <2>2, ClaimRefusalForms DEF VerifyReturn, Active, ClaimAnswers, Answers
      <3>5. QED
        BY <2>2, <3>2, <3>3, <3>4 DEF VerifyReturn, Answers
    <2>3. ASSUME NEW r \in Req, NEW resolved \in BOOLEAN,
                 SourceReturn(r, resolved)
          PROVE  TypeOK'
      <3>1. /\ job[r].key \in Key /\ job[r].body \in Body /\ AuthFor(r) \in Auth
            /\ UNCHANGED <<now, skew, job>>
        BY <2>3, JobForms DEF SourceReturn, Active
      <3>2. ASSUME NEW ans \in Answers, FailClaimed(r, ans)
            PROVE  TypeOK'
        <4>1. WellFormed(results', Key) /\ WellFormed(claims', Auth)
          BY <2>c, <3>1, <3>2, LedgerForms DEF FailClaimed
        <4>2. HandlersOK'
          BY <2>c, <3>1, <3>2, FinishForms DEF FailClaimed
        <4>3. QED
          BY <1>2, <4>1, <4>2
      <3>3. CASE Submit(r)
        <4>1. [by |-> r, ok |-> TRUE, proof |-> None] \in Outcome
          BY DEF Outcome
        <4>2. WellFormed(claims', Auth)
          BY <2>a, <2>c, <3>1, <3>3, <4>1, LedgerForms DEF Submit
        <4>3. HandlersOK'
          BY <2>3, <2>c, <3>1, <3>3 DEF Submit, SourceReturn, HandlersOK, Active
        <4>4. QED
          BY <1>2, <2>c, <3>3, <4>2, <4>3 DEF Submit
      <3>4. QED
        BY <2>3, <3>2, <3>3 DEF SourceReturn, Answers
    <2>4. ASSUME NEW r \in Req, NEW out \in {"served", "declined", "unknown"},
                 SettleReturn(r, out)
          PROVE  TypeOK'
      <3>1. /\ job[r].key \in Key /\ job[r].body \in Body /\ job[r].proof \in Proof
            /\ UNCHANGED <<now, skew, claims, job, wire>>
        BY <2>4, JobForms DEF SettleReturn, Active
      <3>2. [by |-> r, ok |-> out = "served", proof |-> job[r].proof] \in Outcome
        BY <3>1 DEF Outcome
      <3>3. WellFormed(results', Key)
        BY <2>a, <2>c, <2>4, <3>1, <3>2, LedgerForms DEF SettleReturn
      <3>4. HandlersOK'
        BY <2>c, <2>4, <3>1, FinishForms DEF SettleReturn, Answers
      <3>5. QED
        BY <1>2, <2>c, <3>1, <3>3, <3>4
    <2>5. ASSUME NEW r \in Req, NEW result \in {"executed", "failed"},
                 Transfer(r, result)
          PROVE  TypeOK'
      BY <1>2, <2>c, <2>5 DEF Transfer, HandlersOK, Active
    <2>6. ASSUME NEW r \in Req, Cancel(r)
          PROVE  TypeOK'
      BY <1>2, <2>c, <2>6 DEF Cancel, HandlersOK, Active
    <2>7. CASE Tick
      <3>1. now' \in Nat
        BY <2>a, <2>7 DEF Tick
      <3>2. WellFormed(results', Key) /\ WellFormed(claims', Auth)
        BY <2>c, <2>7, <3>1, LedgerForms DEF Tick
      <3>3. HandlersOK'
        BY <2>c, <2>7, <3>1 DEF Tick, HandlersOK, Active
      <3>4. QED
        BY <1>2, <3>2, <3>3
    <2>8. CASE (\E d \in 0..MaxSkew : StepClock(d)) \/ UNCHANGED vars
      BY <1>2, <2>c, <2>8 DEF StepClock, vars, HandlersOK, Active
    <2>9. QED
      BY <2>1, <2>2, <2>3, <2>4, <2>5, <2>6, <2>7, <2>8 DEF Next
  <1>5. QED
    BY <1>3, <1>4, PTL DEF Spec
-----------------------------------------------------------------------------
(* What a step may do to a request, as the proofs below need it: a request *)
(* that is submitted or at work keeps its job, and settlement only moves   *)
(* forward.                                                                *)
LEMMA StepEffect ==
    ASSUME TypeOK, WindowInv, [Next]_vars, NEW r \in Req
    PROVE  /\ (Submitted(r) \/ Active(r)) => job'[r] = job[r]
           /\ Submitted(r) => Submitted(r)'
           /\ wire[r] = "executed" => wire'[r] = "executed"
           /\ Submitted(r)' => job'[r] = job[r]
           /\ now' = now \/ Tick
  <1>1. ASSUME NEW s \in Req, NEW k \in Key, NEW b \in Body, NEW p \in Proof,
               Arrive(s, k, b, p)
        PROVE  /\ (Submitted(r) \/ Active(r)) => job'[r] = job[r]
               /\ wire' = wire /\ now' = now
               /\ Submitted(r) => job'[r] = job[r]
    <2>1. pc[s] = "idle" /\ ~Submitted(s) /\ ~Active(s)
      BY <1>1 DEF Arrive, WindowInv, Submitted, Active
    <2>2. job' = job \/ \E j : job' = [job EXCEPT ![s] = j]
      BY <1>1 DEF Arrive, Collide, Replay, TurnAway, Admit, Accept
    <2>3. QED
      BY <1>1, <2>1, <2>2 DEF Arrive, TypeOK
  <1>2. ASSUME NEW s \in Req, NEW f \in BOOLEAN, VerifyReturn(s, f)
        PROVE  job' = job /\ wire' = wire /\ now' = now
    BY <1>2 DEF VerifyReturn
  <1>3. ASSUME NEW s \in Req, NEW f \in BOOLEAN, SourceReturn(s, f)
        PROVE  /\ job' = job /\ now' = now
               /\ wire' = wire \/ wire' = [wire EXCEPT ![s] = "submitted"]
               /\ wire[s] = "none"
    BY <1>3 DEF SourceReturn, FailClaimed, Submit, WindowInv
  <1>4. ASSUME NEW s \in Req, NEW out, SettleReturn(s, out)
        PROVE  job' = job /\ wire' = wire /\ now' = now
    BY <1>4 DEF SettleReturn
  <1>5. ASSUME NEW s \in Req, NEW result \in {"executed", "failed"},
               Transfer(s, result)
        PROVE  /\ job' = job /\ now' = now /\ wire[s] = "submitted"
               /\ wire' = [wire EXCEPT ![s] = result]
    BY <1>5 DEF Transfer
  <1>6. ASSUME (\E s \in Req : Cancel(s)) \/ (\E d \in 0..MaxSkew : StepClock(d))
                 \/ UNCHANGED vars
        PROVE  job' = job /\ wire' = wire /\ now' = now
    BY <1>6 DEF Cancel, StepClock, vars
  <1>7. Tick => job' = job /\ wire' = wire
    BY DEF Tick
  <1>8. wire \in [Req -> {"none", "submitted", "executed", "failed"}]
    BY DEF TypeOK
  <1>9. QED
    BY <1>1, <1>2, <1>3, <1>4, <1>5, <1>6, <1>7, <1>8 DEF Next, Submitted

(* The authorization of a request at work is inside the window the server  *)
(* allows, measured on the monotonic clock.                                *)
THEOREM WindowInvariant == Spec => []WindowInv
  <1>1. Init => WindowInv
    BY DEF Init, WindowInv, Submitted
  <1>2. TypeOK /\ WindowInv /\ [Next]_vars => WindowInv'
    <2> SUFFICES ASSUME TypeOK, WindowInv, [Next]_vars PROVE WindowInv'
      OBVIOUS
    <2>a. /\ MaxTimeout \in Nat /\ VerifyBound \in Nat /\ MaxSkew \in Nat
          /\ now \in Nat /\ skew \in Nat /\ skew <= MaxSkew
      BY PaidAssumption DEF TypeOK
    <2>1. ASSUME NEW r \in Req, NEW k \in Key, NEW b \in Body, NEW p \in Proof,
                 Arrive(r, k, b, p)
          PROVE  WindowInv'
      <3>1. /\ wire' = wire /\ now' = now
            /\ wire[r] = "none"
            /\ \A s \in Req : s # r => job'[s] = job[s] /\ pc'[s] = pc[s]
        BY <2>1 DEF Arrive, Collide, Replay, TurnAway, Admit, Accept, Finish,
                    TypeOK, WindowInv
      <3>2. pc'[r] = "verify" =>
              /\ job'[r].at = now /\ AuthFor(r)' = AuthOf[p]
              /\ now < ValidBefore[AuthOf[p]]
              /\ ValidBefore[AuthOf[p]] <= now + MaxSkew + MaxTimeout
        <4>1. pc'[r] = "verify" => Admit(r, k, b, p)
          BY <2>1 DEF Arrive, Collide, Replay, TurnAway, Finish, TypeOK
        <4>2. ValidBefore[AuthOf[p]] \in Nat
          BY PaidAssumption
        <4>3. Admit(r, k, b, p) =>
                /\ job'[r].at = now /\ AuthFor(r)' = AuthOf[p]
                /\ now + skew < ValidBefore[AuthOf[p]]
                /\ ValidBefore[AuthOf[p]] <= now + skew + MaxTimeout
          BY DEF Admit, Accept, AuthFor, Acceptable, InWindow, Wall, TypeOK
        <4>4. QED
          BY <2>a, <4>1, <4>2, <4>3
      <3>3. pc'[r] \in {"verify", "done"}
        BY <2>1 DEF Arrive, Collide, Replay, TurnAway, Admit, Finish, TypeOK
      <3>4. QED
        BY <2>a, <3>1, <3>2, <3>3 DEF WindowInv, AuthFor, Submitted
    <2>2. ASSUME NEW r \in Req, NEW accepted \in BOOLEAN,
                 VerifyReturn(r, accepted)
          PROVE  WindowInv'
      <3>1. /\ pc[r] = "verify" /\ UNCHANGED <<now, job, wire>>
            /\ pc'[r] \in {"source", "done"}
            /\ \A s \in Req : s # r => pc'[s] = pc[s]
        BY <2>2 DEF VerifyReturn, FailUnclaimed, Claim, Finish, TypeOK
      <3>2. QED
        BY <3>1 DEF WindowInv, AuthFor, Submitted
    <2>3. ASSUME NEW r \in Req, NEW resolved \in BOOLEAN,
                 SourceReturn(r, resolved)
          PROVE  WindowInv'
      <3>1. /\ pc[r] = "source" /\ UNCHANGED <<now, job>>
            /\ pc'[r] \in {"settle", "done"}
            /\ \A s \in Req : s # r => pc'[s] = pc[s] /\ wire'[s] = wire[s]
        BY <2>3 DEF SourceReturn, FailClaimed, Submit, Finish, TypeOK
      <3>2. job[r].proof \in Proof
        BY <2>3, JobForms DEF SourceReturn, Active
      <3>3. QED
        BY <3>1, <3>2 DEF WindowInv, AuthFor, Submitted
    <2>4. ASSUME NEW r \in Req, NEW out \in {"served", "declined", "unknown"},
                 SettleReturn(r, out)
          PROVE  WindowInv'
      BY <2>4 DEF SettleReturn, Finish, TypeOK, WindowInv, AuthFor, Submitted
    <2>5. ASSUME NEW r \in Req, NEW result \in {"executed", "failed"},
                 Transfer(r, result)
          PROVE  WindowInv'
      <3>1. /\ Submitted(r) /\ UNCHANGED <<now, pc, job>>
            /\ \A s \in Req : s # r => wire'[s] = wire[s]
        BY <2>5 DEF Transfer, Submitted, TypeOK
      <3>2. QED
        BY <3>1 DEF WindowInv, AuthFor, Submitted
    <2>6. ASSUME NEW r \in Req, Cancel(r)
          PROVE  WindowInv'
      BY <2>6 DEF Cancel, Active, TypeOK, WindowInv, AuthFor, Submitted
    <2>7. CASE Tick
      <3>1. /\ now' = now + 1 /\ UNCHANGED <<pc, job, wire>>
            /\ \A r \in Req : pc[r] = "verify" => now < job[r].at + VerifyBound
        BY <2>7 DEF Tick
      <3>2. \A r \in Req : job[r].at \in Nat
        BY DEF TypeOK, Job
      <3>3. QED
        BY <2>a, <3>1, <3>2 DEF WindowInv, AuthFor, Submitted
    <2>8. CASE (\E d \in 0..MaxSkew : StepClock(d)) \/ UNCHANGED vars
      BY <2>8 DEF StepClock, vars, WindowInv, AuthFor, Submitted
    <2>9. QED
      BY <2>1, <2>2, <2>3, <2>4, <2>5, <2>6, <2>7, <2>8 DEF Next
  <1>3. QED
    BY <1>1, <1>2, TypeCorrect, PTL DEF Spec
-----------------------------------------------------------------------------
(* An authorization that was submitted has been submitted by one request.  *)
SubmissionInv == TombstoneInv /\ AtMostOneSubmission

(* A step that submits nothing new and leaves every claim of a submitted   *)
(* authorization alone keeps the invariant.                                *)
LEMMA QuietStep ==
    ASSUME TypeOK, WindowInv, SubmissionInv, [Next]_vars, now' = now,
           \A r \in Req : Submitted(r)' => Submitted(r),
           \A r \in Req : Submitted(r) => claims'[AuthFor(r)] = claims[AuthFor(r)]
    PROVE  SubmissionInv'
  <1>1. \A r \in Req : Submitted(r)' =>
          /\ Submitted(r) /\ AuthFor(r)' = AuthFor(r)
          /\ claims'[AuthFor(r)'] = claims[AuthFor(r)]
    BY StepEffect DEF AuthFor
  <1>2. TombstoneInv'
    BY <1>1 DEF SubmissionInv, TombstoneInv
  <1>3. AtMostOneSubmission'
    BY <1>1 DEF SubmissionInv, AtMostOneSubmission
  <1>4. QED
    BY <1>2, <1>3 DEF SubmissionInv

(* The tombstone is inductive together with the uniqueness it protects.    *)
THEOREM SubmissionInvariant == Spec => []SubmissionInv
  <1>1. Init => SubmissionInv
    BY DEF Init, SubmissionInv, TombstoneInv, AtMostOneSubmission, Submitted
  <1>2. TypeOK /\ WindowInv /\ SubmissionInv /\ [Next]_vars => SubmissionInv'
    <2> SUFFICES ASSUME TypeOK, WindowInv, SubmissionInv, [Next]_vars
                 PROVE  SubmissionInv'
      OBVIOUS
    <2>a. /\ MaxTimeout \in Nat /\ VerifyBound \in Nat /\ MaxSkew \in Nat
          /\ ClaimTTL \in Nat /\ MaxSkew + MaxTimeout + VerifyBound <= ClaimTTL
          /\ now \in Nat
      BY PaidAssumption DEF TypeOK
    <2>b. claims \in [Auth -> Entry]
      BY DEF TypeOK, WellFormed
    <2>c. \A r \in Req : Submitted(r) => /\ AuthFor(r) \in Auth
                                         /\ ValidBefore[AuthFor(r)] \in Nat
      BY PaidAssumption DEF WindowInv, AuthFor
    <2>1. ASSUME NEW r \in Req, NEW k \in Key, NEW b \in Body, NEW p \in Proof,
                 Arrive(r, k, b, p)
          PROVE  SubmissionInv'
      BY <2>1, QuietStep DEF Arrive, Submitted
    <2>2. ASSUME NEW r \in Req, NEW accepted \in BOOLEAN,
                 VerifyReturn(r, accepted)
          PROVE  SubmissionInv'
      <3>1. now' = now /\ wire' = wire
        BY <2>2 DEF VerifyReturn
      <3>2. CASE claims' = claims
        BY <3>1, <3>2, QuietStep DEF Submitted
      <3>3. CASE ClaimState(r) = "fresh" /\ Claim(r)
        <4>1. /\ AuthFor(r) \in Auth /\ ValidBefore[AuthFor(r)] \in Nat
              /\ job[r].at \in Nat
          BY <2>2, JobForms, PaidAssumption DEF VerifyReturn, Active, TypeOK, Job
        <4>2. now < ValidBefore[AuthFor(r)] + VerifyBound
          <5>1. /\ now <= job[r].at + VerifyBound
                /\ job[r].at < ValidBefore[AuthFor(r)]
            BY <2>2 DEF VerifyReturn, WindowInv
          <5>2. QED
            BY <2>a, <4>1, <5>1
        <4>3. claims[AuthFor(r)].state # "complete"
          BY <3>3 DEF ClaimState, Lookup, IsPresent
        <4>4. \A s \in Req : Submitted(s) => AuthFor(s) # AuthFor(r)
          BY <4>2, <4>3 DEF SubmissionInv, TombstoneInv
        <4>5. \A s \in Req : Submitted(s) => claims'[AuthFor(s)] = claims[AuthFor(s)]
          BY <2>b, <2>c, <3>3, <4>4 DEF Claim
        <4>6. QED
          BY <3>1, <4>5, QuietStep DEF Submitted
      <3>4. QED
        BY <2>2, <3>2, <3>3 DEF VerifyReturn, FailUnclaimed
    <2>3. ASSUME NEW r \in Req, NEW resolved \in BOOLEAN,
                 SourceReturn(r, resolved)
          PROVE  SubmissionInv'
      <3>1. /\ now' = now /\ job' = job
            /\ AuthFor(r) \in Auth /\ ValidBefore[AuthFor(r)] \in Nat
            /\ job[r].at \in Nat
        BY <2>3, JobForms, PaidAssumption DEF SourceReturn, Active, TypeOK, Job
      <3>2. ASSUME NEW ans, FailClaimed(r, ans)
            PROVE  SubmissionInv'
        <4>1. \A s \in Req : Submitted(s) => claims'[AuthFor(s)] = claims[AuthFor(s)]
          <5>1. \A s \in Req : Submitted(s) => claims[AuthFor(s)].state # "reserved"
            BY DEF SubmissionInv, TombstoneInv
          <5>2. QED
            BY <2>b, <2>c, <3>2, <5>1 DEF FailClaimed, Release, Owns
        <4>2. QED
          BY <3>1, <3>2, <4>1, QuietStep DEF FailClaimed, Submitted
      <3>3. CASE OwnsClaim(r) /\ Submit(r)
        <4>1. /\ claims[AuthFor(r)].state = "reserved"
              /\ claims[AuthFor(r)].token = r
          BY <3>3 DEF OwnsClaim, Owns
        <4>2. \A s \in Req : Submitted(s) => AuthFor(s) # AuthFor(r)
          BY <4>1 DEF SubmissionInv, TombstoneInv
        <4>3. /\ claims'[AuthFor(r)].state = "complete"
              /\ claims'[AuthFor(r)].token = r
              /\ claims'[AuthFor(r)].expires = now + ClaimTTL
              /\ \A a \in Auth : a # AuthFor(r) => claims'[a] = claims[a]
          <5>1. [by |-> r, ok |-> TRUE, proof |-> None] \in Outcome
            BY DEF Outcome
          <5>2. now + ClaimTTL \in Nat
            BY <2>a
          <5>3. claims[AuthFor(r)] \in Entry
            BY <2>b, <3>1
          <5>4. claims' = [claims EXCEPT ![AuthFor(r)] =
                   Completed(claims[AuthFor(r)],
                             [by |-> r, ok |-> TRUE, proof |-> None],
                             now + ClaimTTL)]
            BY <2>b, <3>1, <3>3 DEF Submit, Commit, OwnsClaim
          <5>5. QED
            BY <2>b, <3>1, <4>1, <5>1, <5>2, <5>3, <5>4, EntryForms
        <4>4. now + ClaimTTL >= ValidBefore[AuthFor(r)] + VerifyBound
          <5>1. /\ job[r].at <= now
                /\ ValidBefore[AuthFor(r)] <= job[r].at + MaxSkew + MaxTimeout
            BY <2>3 DEF SourceReturn, WindowInv
          <5>2. QED
            BY <2>a, <3>1, <5>1
        <4>5. /\ \A s \in Req : AuthFor(s)' = AuthFor(s)
              /\ \A s \in Req : Submitted(s)' <=> Submitted(s) \/ s = r
          BY <3>1, <3>3 DEF AuthFor, Submit, Submitted, TypeOK
        <4>6. TombstoneInv'
          BY <2>c, <3>1, <4>2, <4>3, <4>4, <4>5 DEF SubmissionInv, TombstoneInv
        <4>7. AtMostOneSubmission'
          BY <4>2, <4>5 DEF SubmissionInv, AtMostOneSubmission
        <4>8. QED
          BY <4>6, <4>7 DEF SubmissionInv
      <3>4. QED
        BY <2>3, <3>2, <3>3 DEF SourceReturn
    <2>4. ASSUME NEW r \in Req, NEW out \in {"served", "declined", "unknown"},
                 SettleReturn(r, out)
          PROVE  SubmissionInv'
      BY <2>4, QuietStep DEF SettleReturn, Submitted
    <2>5. ASSUME NEW r \in Req, NEW result \in {"executed", "failed"},
                 Transfer(r, result)
          PROVE  SubmissionInv'
      <3>1. \A s \in Req : Submitted(s)' => Submitted(s)
        BY <2>5 DEF Transfer, Submitted, TypeOK
      <3>2. QED
        BY <2>5, <3>1, QuietStep DEF Transfer
    <2>6. CASE (\E r \in Req : Cancel(r)) \/ (\E d \in 0..MaxSkew : StepClock(d))
                 \/ UNCHANGED vars
      BY <2>6, QuietStep DEF Cancel, StepClock, vars, Submitted
    <2>7. CASE Tick
      <3>1. /\ now' = now + 1 /\ job' = job /\ wire' = wire
            /\ claims' = Purge(claims, now + 1)
        BY <2>7 DEF Tick
      <3>2. \A a \in Auth : \/ claims'[a] = Absent
                            \/ claims'[a] = claims[a]
        BY <2>b, <3>1 DEF Purge
      <3>3. \A a \in Auth : now + 1 < claims[a].expires => claims'[a] = claims[a]
        BY <2>a, <2>b, <3>1 DEF Purge, IsExpired, Entry
      <3>4. /\ \A s \in Req : AuthFor(s)' = AuthFor(s)
            /\ \A s \in Req : Submitted(s)' <=> Submitted(s)
        BY <3>1 DEF AuthFor, Submitted
      <3>5. ASSUME NEW s \in Req, Submitted(s)
            PROVE  LET e == claims'[AuthFor(s)] IN
                   /\ e.state # "reserved"
                   /\ now + 1 < ValidBefore[AuthFor(s)] + VerifyBound =>
                         /\ e.state = "complete" /\ e.token = s
                         /\ e.expires >= ValidBefore[AuthFor(s)] + VerifyBound
        <4>1. claims'[AuthFor(s)].state # "reserved"
          BY <2>c, <3>2, <3>5, EntryForms DEF SubmissionInv, TombstoneInv
        <4>2. ASSUME now + 1 < ValidBefore[AuthFor(s)] + VerifyBound
              PROVE  /\ claims[AuthFor(s)].state = "complete"
                     /\ claims[AuthFor(s)].token = s
                     /\ claims[AuthFor(s)].expires
                           >= ValidBefore[AuthFor(s)] + VerifyBound
                     /\ claims'[AuthFor(s)] = claims[AuthFor(s)]
          <5>1. now < ValidBefore[AuthFor(s)] + VerifyBound
            BY <2>a, <2>c, <3>5, <4>2
          <5>2. /\ claims[AuthFor(s)].state = "complete"
                /\ claims[AuthFor(s)].token = s
                /\ claims[AuthFor(s)].expires
                      >= ValidBefore[AuthFor(s)] + VerifyBound
            BY <3>5, <5>1 DEF SubmissionInv, TombstoneInv
          <5>3. claims[AuthFor(s)].expires \in Nat
            BY <2>b, <2>c, <3>5 DEF Entry
          <5>4. now + 1 < claims[AuthFor(s)].expires
            BY <2>a, <2>c, <3>5, <4>2, <5>2, <5>3
          <5>5. QED
            BY <2>c, <3>3, <3>5, <5>2, <5>4
        <4>3. QED
          BY <4>1, <4>2
      <3>6. TombstoneInv'
        BY <3>1, <3>4, <3>5 DEF TombstoneInv
      <3>7. AtMostOneSubmission'
        BY <3>4 DEF SubmissionInv, AtMostOneSubmission
      <3>8. QED
        BY <3>6, <3>7 DEF SubmissionInv
    <2>8. QED
      BY <2>1, <2>2, <2>3, <2>4, <2>5, <2>6, <2>7 DEF Next
  <1>3. QED
    BY <1>1, <1>2, TypeCorrect, WindowInvariant, PTL DEF Spec

(* No authorization is ever sent to settlement twice.                      *)
THEOREM OneSubmission == Spec => []AtMostOneSubmission
  <1>1. SubmissionInv => AtMostOneSubmission
    BY DEF SubmissionInv
  <1>2. QED
    BY <1>1, SubmissionInvariant, PTL

(* The tombstone outlives the authorization it guards.                     *)
THEOREM TombstoneHolds == Spec => []TombstoneStands
  <1>1. SubmissionInv => TombstoneStands
    BY DEF SubmissionInv, TombstoneInv, TombstoneStands
  <1>2. QED
    BY <1>1, SubmissionInvariant, PTL
-----------------------------------------------------------------------------
(* A request's abort leaves another request's reservation alone.           *)
LEMMA ReleaseSpares ==
    ASSUME NEW S, NEW L, WellFormed(L, S), NEW k \in S, NEW j \in S,
           NEW b, NEW r, L[j].token # r
    PROVE  Release(L, k, b, r)[j] = L[j]
  BY DEF Release, Owns, WellFormed

(* So does its commit.                                                     *)
LEMMA CommitSpares ==
    ASSUME NEW S, NEW L, WellFormed(L, S), NEW k \in S, NEW j \in S,
           NEW b, NEW r, NEW o, L[j].token # r
    PROVE  Commit(L, k, b, r, o)[j] = L[j]
  BY DEF Commit, Owns, WellFormed

(* The reservation of a handler at work stands for its whole TTL.          *)
THEOREM KeyInvariant == Spec => []KeyInv
  <1>1. Init => KeyInv
    BY DEF Init, KeyInv, Active
  <1>2. TypeOK /\ WindowInv /\ KeyInv /\ [Next]_vars => KeyInv'
    <2> SUFFICES ASSUME TypeOK, WindowInv, KeyInv, [Next]_vars,
                        NEW r \in Req, Active(r)',
                        now' < job'[r].at + ReservationTTL
                 PROVE  results'[job'[r].key]
                          = Reserved(job'[r].body, r, job'[r].at + ReservationTTL,
                                     ResultLimits.hold)
      BY DEF KeyInv
    <2>a. WellFormed(results, Key) /\ ReservationTTL \in Nat /\ now \in Nat
      BY PaidAssumption DEF TypeOK
    <2> DEFINE Mine == Reserved(job[r].body, r, job[r].at + ReservationTTL,
                                ResultLimits.hold)
    <2>b. ASSUME Active(r), now' = now
          PROVE  /\ job'[r] = job[r] /\ job[r].key \in Key
                 /\ results[job[r].key] = Mine
                 /\ results[job[r].key].token = r
                 /\ results[job[r].key].state = "reserved"
      <3>1. job'[r] = job[r]
        BY <2>b, StepEffect
      <3>2. job[r].key \in Key
        BY <2>b, JobForms
      <3>3. results[job[r].key] = Mine
        BY <2>b, <3>1 DEF KeyInv
      <3>4. QED
        BY <3>1, <3>2, <3>3 DEF Reserved
    <2>1. ASSUME NEW s \in Req, NEW k \in Key, NEW b \in Body, NEW p \in Proof,
                 Arrive(s, k, b, p)
          PROVE  results'[job'[r].key]
                   = Reserved(job'[r].body, r, job'[r].at + ReservationTTL,
                              ResultLimits.hold)
      <3>1. now' = now /\ pc[s] = "idle"
        BY <2>1 DEF Arrive
      <3>2. CASE Admit(s, k, b, p)
        <4>1. CASE r = s
          BY <2>a, <3>2, <4>1 DEF Admit, Accept, WellFormed, TypeOK
        <4>2. CASE r # s
          <5>1. Active(r)
            BY <3>2, <4>2 DEF Admit, Active, TypeOK
          <5>2. results[k].state = "absent"
            BY <2>a, <3>2
            DEF Admit, Lookup, IsPresent, WellFormed, Entry, States
          <5>3. job[r].key # k
            BY <2>b, <3>1, <5>1, <5>2
          <5>4. results'[job[r].key] = results[job[r].key]
            BY <2>a, <2>b, <3>1, <3>2, <5>1, <5>3 DEF Admit, WellFormed
          <5>5. QED
            BY <2>b, <3>1, <5>1, <5>4
        <4>3. QED
          BY <4>1, <4>2
      <3>3. CASE ~Admit(s, k, b, p)
        <4>1. results' = results /\ pc' = [pc EXCEPT ![s] = "done"]
          BY <2>1, <3>3 DEF Arrive, Collide, Replay, TurnAway, Finish
        <4>2. Active(r)
          BY <4>1 DEF Active, TypeOK
        <4>3. QED
          BY <2>b, <3>1, <4>1, <4>2
      <3>4. QED
        BY <3>2, <3>3
    <2>2. ASSUME NEW s \in Req, pc[s] \in {"verify", "source", "settle"},
                 now' = now, pc' \in {[pc EXCEPT ![s] = x] :
                                       x \in {"source", "settle", "done"}},
                 \/ results' = results
                 \/ /\ \/ results' = Release(results, job[s].key, job[s].body, s)
                       \/ \E o : results' = Commit(results, job[s].key,
                                                   job[s].body, s, o)
                    /\ pc' = [pc EXCEPT ![s] = "done"]
          PROVE  results'[job'[r].key]
                   = Reserved(job'[r].body, r, job'[r].at + ReservationTTL,
                              ResultLimits.hold)
      <3>1. Active(r)
        BY <2>2 DEF Active, TypeOK
      <3>2. CASE results' = results
        BY <2>2, <2>b, <3>1, <3>2
      <3>3. CASE results' # results
        <4>1. r # s
          BY <2>2, <3>3 DEF Active, TypeOK
        <4>2. job[s].key \in Key
          BY <2>2, JobForms DEF Active
        <4>3. /\ job[r].key \in Key /\ results[job[r].key].token # s
              /\ WellFormed(results, Key)
          BY <2>2, <2>a, <2>b, <3>1, <4>1
        <4>4. Release(results, job[s].key, job[s].body, s)[job[r].key]
                = results[job[r].key]
          BY <4>2, <4>3, ReleaseSpares
        <4>5. ASSUME NEW o
              PROVE  Commit(results, job[s].key, job[s].body, s, o)[job[r].key]
                       = results[job[r].key]
          BY <4>2, <4>3, CommitSpares
        <4>6. results'[job[r].key] = results[job[r].key]
          BY <2>2, <3>3, <4>4, <4>5
        <4>7. QED
          BY <2>2, <2>b, <3>1, <4>6
      <3>4. QED
        BY <3>2, <3>3
    <2>3. ASSUME NEW s \in Req, NEW accepted \in BOOLEAN,
                 VerifyReturn(s, accepted)
          PROVE  results'[job'[r].key]
                   = Reserved(job'[r].body, r, job'[r].at + ReservationTTL,
                              ResultLimits.hold)
      BY <2>2, <2>3 DEF VerifyReturn, FailUnclaimed, Claim, Finish
    <2>4. ASSUME NEW s \in Req, NEW resolved \in BOOLEAN,
                 SourceReturn(s, resolved)
          PROVE  results'[job'[r].key]
                   = Reserved(job'[r].body, r, job'[r].at + ReservationTTL,
                              ResultLimits.hold)
      BY <2>2, <2>4 DEF SourceReturn, FailClaimed, Submit, Finish
    <2>5. ASSUME NEW s \in Req, NEW out \in {"served", "declined", "unknown"},
                 SettleReturn(s, out)
          PROVE  results'[job'[r].key]
                   = Reserved(job'[r].body, r, job'[r].at + ReservationTTL,
                              ResultLimits.hold)
      BY <2>2, <2>5 DEF SettleReturn, Finish
    <2>6. CASE \/ \E s \in Req, result \in {"executed", "failed"} : Transfer(s, result)
               \/ \E s \in Req : Cancel(s)
               \/ \E d \in 0..MaxSkew : StepClock(d)
               \/ UNCHANGED vars
      <3>1. now' = now /\ results' = results /\ Active(r)
        BY <2>6 DEF Transfer, Cancel, StepClock, vars, Active, TypeOK
      <3>2. QED
        BY <2>b, <3>1
    <2>7. CASE Tick
      <3>1. /\ now' = now + 1 /\ job' = job /\ Active(r)
            /\ results' = Purge(results, now + 1)
        BY <2>7 DEF Tick, Active
      <3>2. job[r].key \in Key /\ job[r].at \in Nat
        BY <3>1, JobForms DEF TypeOK, Job
      <3>3. results[job[r].key] = Mine
        BY <2>a, <3>1, <3>2 DEF KeyInv
      <3>4. Mine.expires = job[r].at + ReservationTTL
        BY DEF Reserved
      <3>5. ~IsExpired(Mine, now + 1)
        BY <2>a, <3>1, <3>2, <3>4 DEF IsExpired
      <3>6. results'[job[r].key] = Mine
        BY <2>a, <3>1, <3>2, <3>3, <3>5 DEF Purge, WellFormed
      <3>7. QED
        BY <3>1, <3>6
    <2>8. QED
      BY <2>1, <2>3, <2>4, <2>5, <2>6, <2>7 DEF Next
  <1>3. QED
    BY <1>1, <1>2, TypeCorrect, WindowInvariant, PTL DEF Spec

(* A handler at work owns its key until its reservation's TTL is over.     *)
THEOREM WorkIsProtected == Spec => []WorkProtected
  <1>1. KeyInv => WorkProtected
    <2>1. ASSUME NEW b, NEW r, NEW t, NEW h
          PROVE  Owns(Reserved(b, r, t, h), b, r)
      BY DEF Owns, Reserved
    <2>2. QED
      BY <2>1 DEF KeyInv, WorkProtected
  <1>2. QED
    BY <1>1, KeyInvariant, PTL
-----------------------------------------------------------------------------
(* Which answers each state of a settlement allows: an answer ends the     *)
(* handler, and only the handler that submitted says what became of it.    *)
AnswerInv ==
    \A r \in Req :
        /\ answer[r] # "none" => pc[r] = "done"
        /\ answer[r] = "served" => wire[r] = "executed"
        /\ answer[r] = "declined" => wire[r] = "failed"
        /\ answer[r] = "unknown" => Submitted(r)
        /\ answer[r] \notin {"none", "served", "declined", "unknown"} => ~Submitted(r)
        /\ pc[r] = "settle" => Submitted(r)

(* A stored outcome is the answer of the request it names, filed under     *)
(* that request's key, body and proof.                                     *)
StoredBy(k, o) ==
    /\ Submitted(o)
    /\ job[o].key = k /\ job[o].body = results[k].fp
    /\ job[o].proof = results[k].resp.proof
    /\ answer[o] \in {"served", "declined", "unknown"}
    /\ results[k].resp.ok => answer[o] = "served"

StoredInv ==
    \A k \in Key : results[k].state = "complete" =>
        StoredBy(k, results[k].resp.by)

(* A replayed answer came from a settled request with the same job.        *)
ReplayOf(r, o) ==
    /\ job[o].key = job[r].key /\ job[o].body = job[r].body
    /\ job[o].proof = job[r].proof
    /\ Submitted(o) /\ answer[o] \in {"served", "declined", "unknown"}

ReplayedInv ==
    \A r \in Req : answer[r] = "replayed" =>
        \E o \in Req : job[r].from = o /\ ReplayOf(r, o)

(* Every reservation belongs to a request that is at work, was cancelled   *)
(* or went on to settlement, and lies where that request would release it. *)
HoldsKey(k, r) ==
    /\ pc[r] # "idle"
    /\ pc[r] = "done" => Submitted(r)
    /\ job[r].key = k /\ job[r].body = results[k].fp

HoldsClaim(a, r) ==
    /\ pc[r] \in {"source", "cancelled"}
    /\ AuthFor(r) = a /\ job[r].body = claims[a].fp

HolderInv ==
    /\ \A k \in Key : results[k].state = "reserved" =>
          \E r \in Req : results[k].token = r /\ HoldsKey(k, r)
    /\ \A a \in Auth : claims[a].state = "reserved" =>
          \E r \in Req : claims[a].token = r /\ HoldsClaim(a, r)

(* What a step may do to a request whose handler has begun: its job stays, *)
(* and once it was answered the answer stays.                              *)
LEMMA BegunEffect ==
    ASSUME TypeOK, [Next]_vars, NEW r \in Req, pc[r] # "idle"
    PROVE  /\ pc'[r] # "idle" /\ job'[r] = job[r]
           /\ pc[r] = "done" => pc'[r] = "done" /\ answer'[r] = answer[r]
  <1> USE DEF TypeOK, Finish
  <1>1. ASSUME NEW s \in Req, NEW k \in Key, NEW b \in Body, NEW p \in Proof,
               Arrive(s, k, b, p)
        PROVE  pc'[r] = pc[r] /\ job'[r] = job[r] /\ answer'[r] = answer[r]
    BY <1>1 DEF Arrive, Collide, Replay, TurnAway, Admit, Accept
  <1>2. ASSUME NEW s \in Req, NEW f \in BOOLEAN, VerifyReturn(s, f)
        PROVE  /\ pc'[r] # "idle" /\ job' = job
               /\ pc[r] = "done" => pc'[r] = "done" /\ answer'[r] = answer[r]
    BY <1>2 DEF VerifyReturn, FailUnclaimed, Claim
  <1>3. ASSUME NEW s \in Req, NEW f \in BOOLEAN, SourceReturn(s, f)
        PROVE  /\ pc'[r] # "idle" /\ job' = job
               /\ pc[r] = "done" => pc'[r] = "done" /\ answer'[r] = answer[r]
    BY <1>3 DEF SourceReturn, FailClaimed, Submit
  <1>4. ASSUME NEW s \in Req, NEW out, SettleReturn(s, out)
        PROVE  /\ pc'[r] # "idle" /\ job' = job
               /\ pc[r] = "done" => pc'[r] = "done" /\ answer'[r] = answer[r]
    BY <1>4 DEF SettleReturn
  <1>5. ASSUME NEW s \in Req, Cancel(s)
        PROVE  /\ pc'[r] # "idle" /\ job' = job
               /\ pc[r] = "done" => pc'[r] = "done" /\ answer'[r] = answer[r]
    BY <1>5 DEF Cancel, Active
  <1>6. CASE \/ \E s \in Req, result \in {"executed", "failed"} : Transfer(s, result)
             \/ \E d \in 0..MaxSkew : StepClock(d)
             \/ Tick \/ UNCHANGED vars
    BY <1>6 DEF Transfer, StepClock, Tick, vars
  <1>7. QED
    BY <1>1, <1>2, <1>3, <1>4, <1>5, <1>6 DEF Next

(* Ending a handler with an answer its settlement allows.                  *)
LEMMA FinishAnswer ==
    ASSUME TypeOK, AnswerInv, NEW r \in Req, NEW ans \in Answers, Finish(r, ans),
           wire' = wire, ans # "none",
           ans = "served" => wire[r] = "executed",
           ans = "declined" => wire[r] = "failed",
           ans = "unknown" => Submitted(r),
           ans \notin {"served", "declined", "unknown"} => ~Submitted(r)
    PROVE  AnswerInv'
  BY DEF AnswerInv, Finish, TypeOK, Submitted

(* What a request was told fits what became of its settlement.             *)
THEOREM AnswerInvariant == Spec => []AnswerInv
  <1>1. Init => AnswerInv
    BY DEF Init, AnswerInv
  <1>2. TypeOK /\ WindowInv /\ AnswerInv /\ [Next]_vars => AnswerInv'
    <2> SUFFICES ASSUME TypeOK, WindowInv, AnswerInv, [Next]_vars PROVE AnswerInv'
      OBVIOUS
    <2>1. ASSUME NEW r \in Req, NEW k \in Key, NEW b \in Body, NEW p \in Proof,
                 Arrive(r, k, b, p)
          PROVE  AnswerInv'
      <3>1. pc[r] = "idle" /\ wire' = wire /\ ~Submitted(r)
        BY <2>1 DEF Arrive, WindowInv, Submitted
      <3>2. CASE Admit(r, k, b, p)
        BY <3>1, <3>2 DEF Admit, AnswerInv, TypeOK, Submitted
      <3>3. CASE ~Admit(r, k, b, p)
        <4>1. PICK ans \in {"conflict", "in_progress", "replayed",
                            "proof_mismatch", "rejected", "capacity"} :
                 Finish(r, ans)
          BY <2>1, <3>3 DEF Arrive, Collide, Replay, TurnAway, ReplayAnswer
        <4>2. QED
          BY <3>1, <4>1, FinishAnswer DEF Answers
      <3>4. QED
        BY <3>2, <3>3
    <2>2. ASSUME NEW r \in Req, NEW accepted \in BOOLEAN,
                 VerifyReturn(r, accepted)
          PROVE  AnswerInv'
      <3>1. pc[r] = "verify" /\ wire' = wire /\ ~Submitted(r)
        BY <2>2 DEF VerifyReturn, WindowInv, Submitted
      <3>2. CASE Claim(r)
        BY <3>1, <3>2 DEF Claim, AnswerInv, TypeOK, Submitted
      <3>3. ASSUME NEW ans \in {"verify_failed", "claim_capacity"} \cup ClaimAnswers,
                   FailUnclaimed(r, ans)
            PROVE  AnswerInv'
        BY <3>1, <3>3, FinishAnswer DEF FailUnclaimed, ClaimAnswers, Answers
      <3>4. ClaimState(r) # "fresh" => ClaimRefusals[ClaimState(r)] \in ClaimAnswers
        BY <3>1, ClaimRefusalForms DEF Active
      <3>5. QED
        BY <2>2, <3>2, <3>3, <3>4 DEF VerifyReturn
    <2>3. ASSUME NEW r \in Req, NEW resolved \in BOOLEAN,
                 SourceReturn(r, resolved)
          PROVE  AnswerInv'
      <3>1. pc[r] = "source" /\ ~Submitted(r)
        BY <2>3 DEF SourceReturn, WindowInv, Submitted
      <3>2. CASE Submit(r)
        BY <3>1, <3>2 DEF Submit, AnswerInv, TypeOK, Submitted
      <3>3. ASSUME NEW ans \in {"source_failed", "claim_lost"}, FailClaimed(r, ans)
            PROVE  AnswerInv'
        BY <3>1, <3>3, FinishAnswer DEF FailClaimed, Answers
      <3>4. QED
        BY <2>3, <3>2, <3>3 DEF SourceReturn
    <2>4. ASSUME NEW r \in Req, NEW out \in {"served", "declined", "unknown"},
                 SettleReturn(r, out)
          PROVE  AnswerInv'
      <3>1. Submitted(r) /\ out \in Answers
        BY <2>4 DEF SettleReturn, AnswerInv, Answers
      <3>2. QED
        BY <2>4, <3>1, FinishAnswer DEF SettleReturn, SettlementKnown
    <2>5. ASSUME NEW r \in Req, NEW result \in {"executed", "failed"},
                 Transfer(r, result)
          PROVE  AnswerInv'
      BY <2>5 DEF Transfer, AnswerInv, TypeOK, Submitted
    <2>6. ASSUME NEW r \in Req, Cancel(r)
          PROVE  AnswerInv'
      BY <2>6 DEF Cancel, Active, AnswerInv, TypeOK, Submitted
    <2>7. CASE Tick \/ (\E d \in 0..MaxSkew : StepClock(d)) \/ UNCHANGED vars
      BY <2>7 DEF Tick, StepClock, vars, AnswerInv, Submitted
    <2>8. QED
      BY <2>1, <2>2, <2>3, <2>4, <2>5, <2>6, <2>7 DEF Next
  <1>3. QED
    BY <1>1, <1>2, TypeCorrect, WindowInvariant, PTL DEF Spec
-----------------------------------------------------------------------------
(* What a step may make of the entry under an Idempotency-Key: nothing, a  *)
(* gap where an entry expired or its reservation was given up, an admitted *)
(* request's reservation where there was a gap, or the outcome of the      *)
(* settlement whose handler still owns the reservation.                    *)
Vacated(L, L2, k) ==
    /\ L2[k] = Absent
    /\ IsExpired(L[k], now') \/ L[k].state = "reserved"

AdmittedInto(k, r) ==
    /\ pc[r] = "idle" /\ pc'[r] = "verify"
    /\ results[k].state = "absent" /\ results'[k].state = "reserved"
    /\ results'[k].token = r /\ job'[r].key = k
    /\ results'[k].fp = job'[r].body

SettledInto(k, r, out) ==
    /\ pc[r] = "settle" /\ SettlementKnown(r, out)
    /\ wire' = wire /\ answer'[r] = out /\ job' = job
    /\ results[k].state = "reserved" /\ results[k].fp = job[r].body
    /\ k = job[r].key
    /\ results'[k] = Completed(results[k],
                               [by |-> r, ok |-> out = "served",
                                proof |-> job[r].proof], now + ClaimTTL)

LEMMA ReleaseEffect ==
    ASSUME NEW S, NEW L, WellFormed(L, S), NEW k \in S, NEW j \in S, NEW b, NEW r
    PROVE  \/ Release(L, k, b, r)[j] = L[j] /\ (j = k => ~Owns(L[j], b, r))
           \/ j = k /\ Owns(L[j], b, r) /\ Release(L, k, b, r)[j] = Absent
  BY DEF Release, WellFormed

LEMMA CommitEffect ==
    ASSUME NEW S, NEW L, WellFormed(L, S), NEW k \in S, NEW j \in S, NEW b, NEW r,
           NEW o
    PROVE  \/ Commit(L, k, b, r, o)[j] = L[j] /\ (j = k => ~Owns(L[j], b, r))
           \/ /\ j = k /\ Owns(L[j], b, r)
              /\ Commit(L, k, b, r, o)[j] = Completed(L[j], o, now + ClaimTTL)
  BY DEF Commit, WellFormed

LEMMA PurgeEffect ==
    ASSUME NEW S, NEW L, WellFormed(L, S), NEW j \in S, NEW t
    PROVE  \/ Purge(L, t)[j] = L[j]
           \/ Purge(L, t)[j] = Absent /\ IsExpired(L[j], t)
  BY DEF Purge, WellFormed

LEMMA ResultsEffect ==
    ASSUME TypeOK, [Next]_vars, NEW k \in Key
    PROVE  \/ results'[k] = results[k]
           \/ Vacated(results, results', k)
           \/ \E r \in Req : AdmittedInto(k, r)
           \/ \E r \in Req, out \in {"served", "declined", "unknown"} :
                 SettledInto(k, r, out)
  <1>a. WellFormed(results, Key) /\ results \in [Key -> Entry]
    BY DEF TypeOK, WellFormed
  <1>1. ASSUME NEW r \in Req, NEW j \in Key, NEW b \in Body, NEW p \in Proof,
               Arrive(r, j, b, p)
        PROVE  results'[k] = results[k] \/ AdmittedInto(k, r)
    <2>1. CASE Admit(r, j, b, p) /\ j = k
      <3>1. results[k].state = "absent"
        BY <1>a, <2>1 DEF Admit, Lookup, IsPresent, Entry, States
      <3>2. results'[k] = Reserved(b, r, now + ReservationTTL, ResultLimits.hold)
        BY <1>a, <2>1 DEF Admit
      <3>3. pc[r] = "idle" /\ pc'[r] = "verify" /\ job'[r].key = k /\ job'[r].body = b
        BY <1>1, <2>1 DEF Arrive, Admit, Accept, TypeOK
      <3>4. QED
        BY <3>1, <3>2, <3>3 DEF AdmittedInto, Reserved
    <2>2. CASE ~(Admit(r, j, b, p) /\ j = k)
      BY <1>a, <1>1, <2>2 DEF Arrive, Collide, Replay, TurnAway, Admit
    <2>3. QED
      BY <2>1, <2>2
  <1>2. ASSUME NEW r \in Req, Active(r),
               results' = Release(results, job[r].key, job[r].body, r)
        PROVE  results'[k] = results[k] \/ Vacated(results, results', k)
    BY <1>a, <1>2, JobForms, ReleaseEffect DEF Vacated, Owns
  <1>3. ASSUME NEW r \in Req, NEW f \in BOOLEAN, VerifyReturn(r, f)
        PROVE  results'[k] = results[k] \/ Vacated(results, results', k)
    BY <1>2, <1>3 DEF VerifyReturn, FailUnclaimed, Claim, Active
  <1>4. ASSUME NEW r \in Req, NEW f \in BOOLEAN, SourceReturn(r, f)
        PROVE  results'[k] = results[k] \/ Vacated(results, results', k)
    BY <1>2, <1>4 DEF SourceReturn, FailClaimed, Submit, Active
  <1>5. ASSUME NEW r \in Req, NEW out \in {"served", "declined", "unknown"},
               SettleReturn(r, out)
        PROVE  results'[k] = results[k] \/ SettledInto(k, r, out)
    <2> DEFINE o == [by |-> r, ok |-> out = "served", proof |-> job[r].proof]
    <2>1. job[r].key \in Key
      BY <1>5, JobForms DEF SettleReturn, Active
    <2>2. CASE results' = results
      BY <2>2
    <2>3. CASE results' = Commit(results, job[r].key, job[r].body, r, o)
      <3>1. \/ results'[k] = results[k]
            \/ /\ k = job[r].key /\ Owns(results[k], job[r].body, r)
               /\ results'[k] = Completed(results[k], o, now + ClaimTTL)
        BY <1>a, <2>1, <2>3, CommitEffect
      <3>2. answer'[r] = out
        BY <1>5 DEF SettleReturn, Finish, TypeOK
      <3>3. QED
        BY <1>5, <3>1, <3>2 DEF SettleReturn, SettledInto, Owns
    <2>4. QED
      BY <1>5, <2>2, <2>3 DEF SettleReturn
  <1>6. CASE Tick
    BY <1>a, <1>6, PurgeEffect DEF Tick, Vacated
  <1>7. CASE \/ \E r \in Req, result \in {"executed", "failed"} : Transfer(r, result)
             \/ \E r \in Req : Cancel(r)
             \/ \E d \in 0..MaxSkew : StepClock(d)
             \/ UNCHANGED vars
    BY <1>7 DEF Transfer, Cancel, StepClock, vars
  <1>8. QED
    BY <1>1, <1>3, <1>4, <1>5, <1>6, <1>7 DEF Next

(* And of the entry of an authorization: a claim by a verified request     *)
(* where there was a gap, or the tombstone of the claim's own holder.      *)
ClaimedInto(a, r) ==
    /\ pc[r] = "verify" /\ pc'[r] = "source"
    /\ claims[a].state = "absent" /\ claims'[a].state = "reserved"
    /\ claims'[a].token = r /\ a = AuthFor(r) /\ job' = job
    /\ claims'[a].fp = job[r].body

EntombedInto(a, r) ==
    /\ claims[a].state = "reserved"
    /\ claims'[a] = Completed(claims[a],
                              [by |-> r, ok |-> TRUE, proof |-> None],
                              now + ClaimTTL)

LEMMA ClaimsEffect ==
    ASSUME TypeOK, [Next]_vars, NEW a \in Auth
    PROVE  \/ claims'[a] = claims[a]
           \/ Vacated(claims, claims', a)
           \/ \E r \in Req : ClaimedInto(a, r)
           \/ \E r \in Req : EntombedInto(a, r)
  <1>a. WellFormed(claims, Auth) /\ claims \in [Auth -> Entry]
    BY DEF TypeOK, WellFormed
  <1>1. ASSUME NEW r \in Req, NEW f \in BOOLEAN, VerifyReturn(r, f)
        PROVE  claims'[a] = claims[a] \/ ClaimedInto(a, r)
    <2>1. AuthFor(r) \in Auth
      BY <1>1, JobForms DEF VerifyReturn, Active
    <2>2. CASE Claim(r) /\ ClaimState(r) = "fresh" /\ a = AuthFor(r)
      <3>1. claims[a].state = "absent"
        BY <1>a, <2>2 DEF ClaimState, Lookup, IsPresent, Entry, States
      <3>2. claims'[a] = Reserved(job[r].body, r, now + ReservationTTL,
                                  ClaimLimits.hold)
        BY <1>a, <2>2 DEF Claim
      <3>3. pc[r] = "verify" /\ pc'[r] = "source" /\ job' = job
        BY <1>1, <2>2 DEF VerifyReturn, Claim, TypeOK
      <3>4. QED
        BY <2>2, <3>1, <3>2, <3>3 DEF ClaimedInto, Reserved
    <2>3. CASE ~(Claim(r) /\ ClaimState(r) = "fresh" /\ a = AuthFor(r))
      BY <1>a, <1>1, <2>3 DEF VerifyReturn, FailUnclaimed, Claim
    <2>4. QED
      BY <2>2, <2>3
  <1>2. ASSUME NEW r \in Req, NEW f \in BOOLEAN, SourceReturn(r, f)
        PROVE  \/ claims'[a] = claims[a] \/ Vacated(claims, claims', a)
               \/ EntombedInto(a, r)
    <2>1. AuthFor(r) \in Auth
      BY <1>2, JobForms DEF SourceReturn, Active
    <2>2. ASSUME NEW ans, FailClaimed(r, ans)
          PROVE  claims'[a] = claims[a] \/ Vacated(claims, claims', a)
      BY <1>a, <2>1, <2>2, ReleaseEffect DEF FailClaimed, Vacated, Owns
    <2>3. CASE Submit(r)
      BY <1>a, <2>1, <2>3, CommitEffect DEF Submit, EntombedInto, Owns
    <2>4. QED
      BY <1>2, <2>2, <2>3 DEF SourceReturn
  <1>3. CASE Tick
    BY <1>a, <1>3, PurgeEffect DEF Tick, Vacated
  <1>4. CASE \/ \E r \in Req, k \in Key, b \in Body, p \in Proof : Arrive(r, k, b, p)
             \/ \E r \in Req, out \in {"served", "declined", "unknown"} :
                   SettleReturn(r, out)
             \/ \E r \in Req, result \in {"executed", "failed"} : Transfer(r, result)
             \/ \E r \in Req : Cancel(r)
             \/ \E d \in 0..MaxSkew : StepClock(d)
             \/ UNCHANGED vars
    BY <1>4 DEF Arrive, SettleReturn, Transfer, Cancel, StepClock, vars
  <1>5. QED
    BY <1>1, <1>2, <1>3, <1>4 DEF Next

(* Neither ledger loses or alters an outcome before its time.              *)
THEOREM OutcomesAreKept == Spec => OutcomesKept
  <1>1. TypeOK /\ [Next]_vars => [OutcomeStep]_vars
    <2> SUFFICES ASSUME TypeOK, [Next]_vars PROVE OutcomeStep
      OBVIOUS
    <2>a. results \in [Key -> Entry] /\ claims \in [Auth -> Entry]
      BY DEF TypeOK, WellFormed
    <2>b. now' = now \/ now' = now + 1
      BY DEF Next, Arrive, VerifyReturn, SourceReturn, SettleReturn, Transfer,
             Cancel, StepClock, Tick, vars
    <2>c. now' \in Nat
      BY <2>b DEF TypeOK
    <2>1. ASSUME NEW k \in Key, results[k].state = "complete",
                 now' < results[k].expires
          PROVE  results'[k] = results[k]
      <3>1. ~Vacated(results, results', k)
        BY <2>a, <2>c, <2>1 DEF Vacated, IsExpired, Entry
      <3>2. \A r \in Req : ~AdmittedInto(k, r)
        BY <2>1 DEF AdmittedInto
      <3>3. \A r, out : ~SettledInto(k, r, out)
        BY <2>1 DEF SettledInto
      <3>4. QED
        BY <3>1, <3>2, <3>3, ResultsEffect
    <2>2. ASSUME NEW a \in Auth, claims[a].state = "complete",
                 now' < claims[a].expires
          PROVE  claims'[a] = claims[a]
      <3>1. ~Vacated(claims, claims', a)
        BY <2>a, <2>c, <2>2 DEF Vacated, IsExpired, Entry
      <3>2. \A r \in Req : ~ClaimedInto(a, r) /\ ~EntombedInto(a, r)
        BY <2>2 DEF ClaimedInto, EntombedInto
      <3>3. QED
        BY <3>1, <3>2, ClaimsEffect
    <2>3. QED
      BY <2>1, <2>2 DEF OutcomeStep
  <1>2. QED
    BY <1>1, TypeCorrect, PTL DEF Spec, OutcomesKept
-----------------------------------------------------------------------------
(* What is settled stays settled: the job and the answer of a request that *)
(* submitted and was answered.                                             *)
LEMMA SettledStays ==
    ASSUME TypeOK, WindowInv, AnswerInv, [Next]_vars, NEW o \in Req,
           Submitted(o), answer[o] # "none"
    PROVE  Submitted(o)' /\ job'[o] = job[o] /\ answer'[o] = answer[o]
  <1>1. pc[o] = "done"
    BY DEF AnswerInv
  <1>2. QED
    BY <1>1, BegunEffect, StepEffect

(* Every stored outcome is the answer its own request was given.           *)
THEOREM StoredInvariant == Spec => []StoredInv
  <1>1. Init => StoredInv
    BY EntryForms DEF Init, StoredInv
  <1>2. TypeOK /\ WindowInv /\ AnswerInv /\ StoredInv /\ [Next]_vars => StoredInv'
    <2> SUFFICES ASSUME TypeOK, WindowInv, AnswerInv, StoredInv, [Next]_vars,
                        NEW k \in Key, results'[k].state = "complete"
                 PROVE  StoredBy(k, results[k].resp.by)'
      BY DEF StoredInv
    <2>a. /\ results \in [Key -> Entry]
          /\ results[k].state = "complete" => results[k].resp \in Outcome
      BY DEF TypeOK, WellFormed
    <2>1. CASE results'[k] = results[k]
      <3>1. PICK o \in Req : o = results[k].resp.by
        BY <2>a, <2>1 DEF Outcome
      <3>2. StoredBy(k, o)
        BY <2>1, <3>1 DEF StoredInv
      <3>3. Submitted(o) /\ answer[o] # "none"
        BY <3>2 DEF StoredBy
      <3>4. Submitted(o)' /\ job'[o] = job[o] /\ answer'[o] = answer[o]
        BY <3>3, SettledStays
      <3>5. StoredBy(k, o)'
        BY <2>1, <3>2, <3>4 DEF StoredBy
      <3>6. QED
        BY <2>1, <3>1, <3>5
    <2>2. ASSUME NEW r \in Req, NEW out \in {"served", "declined", "unknown"},
                 SettledInto(k, r, out)
          PROVE  StoredBy(k, results[k].resp.by)'
      <3> DEFINE resp == [by |-> r, ok |-> out = "served", proof |-> job[r].proof]
      <3>1. results'[k] = Completed(results[k], resp, now + ClaimTTL)
        BY <2>2 DEF SettledInto
      <3>2. results'[k].resp = resp /\ results'[k].fp = results[k].fp
        BY <2>a, <3>1 DEF Completed, Entry
      <3>3. resp.by = r /\ resp.proof = job[r].proof /\ resp.ok = (out = "served")
        OBVIOUS
      <3> HIDE DEF resp
      <3>4. Submitted(r)'
        BY <2>2 DEF SettledInto, AnswerInv, Submitted
      <3>5. StoredBy(k, r)'
        BY <2>2, <3>2, <3>3, <3>4 DEF SettledInto, StoredBy
      <3>6. QED
        BY <3>2, <3>3, <3>5
    <2>3. ~Vacated(results, results', k) /\ \A r \in Req : ~AdmittedInto(k, r)
      BY EntryForms DEF Vacated, AdmittedInto
    <2>4. QED
      BY <2>1, <2>2, <2>3, ResultsEffect
  <1>3. QED
    BY <1>1, <1>2, TypeCorrect, WindowInvariant, AnswerInvariant, PTL DEF Spec

(* Nothing is served, now or by a later replay, that was not paid for.     *)
THEOREM NothingFree == Spec => []NoFreeResult
  <1>1. TypeOK /\ AnswerInv /\ StoredInv => NoFreeResult
    <2> SUFFICES ASSUME TypeOK, AnswerInv, StoredInv, NEW k \in Key,
                        results[k].state = "complete", results[k].resp.ok
                 PROVE  wire[results[k].resp.by] = "executed"
      BY DEF AnswerInv, NoFreeResult
    <2>1. results[k].resp.by \in Req
      BY DEF TypeOK, WellFormed, Outcome
    <2>2. answer[results[k].resp.by] = "served"
      BY DEF StoredInv, StoredBy
    <2>3. QED
      BY <2>1, <2>2 DEF AnswerInv
  <1>2. QED
    BY <1>1, TypeCorrect, AnswerInvariant, StoredInvariant, PTL

(* An answer turns into a replay only when a request arrives at a stored   *)
(* outcome.                                                                *)
LEMMA AnsweredReplay ==
    ASSUME TypeOK, [Next]_vars, NEW r \in Req,
           answer[r] # "replayed", answer'[r] = "replayed"
    PROVE  \E k \in Key, b \in Body, p \in Proof :
              Replay(r, k, b, p) /\ Arrive(r, k, b, p)
  <1> USE DEF Finish, TypeOK
  <1>1. ASSUME NEW s \in Req, NEW k \in Key, NEW b \in Body, NEW p \in Proof,
               Arrive(s, k, b, p)
        PROVE  s = r /\ Replay(s, k, b, p)
    BY <1>1 DEF Arrive, Collide, TurnAway, Admit, Replay
  <1>2. ASSUME NEW s \in Req, NEW f \in BOOLEAN, VerifyReturn(s, f)
        PROVE  FALSE
    <2>1. ClaimState(s) # "fresh" => ClaimRefusals[ClaimState(s)] # "replayed"
      BY <1>2, ClaimRefusalForms DEF VerifyReturn, Active, ClaimAnswers
    <2>2. QED
      BY <1>2, <2>1 DEF VerifyReturn, FailUnclaimed, Claim
  <1>3. ASSUME NEW s \in Req, NEW f \in BOOLEAN, SourceReturn(s, f)
        PROVE  FALSE
    BY <1>3 DEF SourceReturn, FailClaimed, Submit
  <1>4. ASSUME NEW s \in Req, NEW out \in {"served", "declined", "unknown"},
               SettleReturn(s, out)
        PROVE  FALSE
    BY <1>4 DEF SettleReturn
  <1>5. CASE \/ \E s \in Req, result \in {"executed", "failed"} : Transfer(s, result)
             \/ \E s \in Req : Cancel(s)
             \/ \E d \in 0..MaxSkew : StepClock(d)
             \/ Tick \/ UNCHANGED vars
    BY <1>5 DEF Transfer, Cancel, StepClock, Tick, vars
  <1>6. QED
    BY <1>1, <1>2, <1>3, <1>4, <1>5 DEF Next

(* A replayed answer is that of a settled request with the same job.       *)
THEOREM ReplayedInvariant == Spec => []ReplayedInv
  <1>1. Init => ReplayedInv
    BY DEF Init, ReplayedInv
  <1>2. TypeOK /\ WindowInv /\ AnswerInv /\ StoredInv /\ ReplayedInv /\ [Next]_vars
           => ReplayedInv'
    <2> SUFFICES ASSUME TypeOK, WindowInv, AnswerInv, StoredInv, ReplayedInv,
                        [Next]_vars, NEW r \in Req, answer'[r] = "replayed"
                 PROVE  \E o \in Req : job'[r].from = o /\ ReplayOf(r, o)'
      BY DEF ReplayedInv
    <2>1. CASE answer[r] = "replayed"
      <3>1. PICK o \in Req : job[r].from = o /\ ReplayOf(r, o)
        BY <2>1 DEF ReplayedInv
      <3>2. pc[r] # "idle"
        BY <2>1 DEF AnswerInv
      <3>3. job'[r] = job[r]
        BY <3>2, BegunEffect
      <3>4. Submitted(o) /\ answer[o] # "none"
        BY <3>1 DEF ReplayOf
      <3>5. Submitted(o)' /\ job'[o] = job[o] /\ answer'[o] = answer[o]
        BY <3>4, SettledStays
      <3>6. ReplayOf(r, o)'
        BY <3>1, <3>3, <3>5 DEF ReplayOf
      <3>7. QED
        BY <3>1, <3>3, <3>6
    <2>2. CASE answer[r] # "replayed"
      <3>1. PICK k \in Key, b \in Body, p \in Proof :
               Replay(r, k, b, p) /\ Arrive(r, k, b, p)
        BY <2>2, AnsweredReplay
      <3>2. /\ results[k].state = "complete" /\ results[k].fp = b
            /\ results[k].resp \in Outcome
        <4>1. results[k] \in Entry
          BY DEF TypeOK, WellFormed
        <4>2. results[k].state = "complete" /\ results[k].fp = b
          BY <3>1, <4>1 DEF Replay, Lookup, Entry, States, IsPresent
        <4>3. QED
          BY <4>2 DEF TypeOK, WellFormed
      <3>3. PICK o \in Req : o = results[k].resp.by
        BY <3>2 DEF Outcome
      <3>4. StoredBy(k, o)
        BY <3>2, <3>3 DEF StoredInv
      <3>5. /\ job'[r].key = k /\ job'[r].body = b /\ job'[r].proof = p
            /\ job'[r].from = o
        BY <3>1, <3>3 DEF Replay, Accept, TypeOK
      <3>6. results[k].resp.proof = p
        <4>1. ReplayAnswer(results[k].resp, p) = "replayed"
          BY <2>2, <3>1 DEF Replay, Finish, TypeOK
        <4>2. QED
          BY <4>1 DEF ReplayAnswer
      <3>7. Submitted(o) /\ answer[o] # "none"
        BY <3>4 DEF StoredBy
      <3>8. Submitted(o)' /\ job'[o] = job[o] /\ answer'[o] = answer[o]
        BY <3>7, SettledStays
      <3>9. ReplayOf(r, o)'
        BY <3>2, <3>4, <3>5, <3>6, <3>8 DEF StoredBy, ReplayOf
      <3>10. QED
        BY <3>5, <3>9
    <2>3. QED
      BY <2>1, <2>2
  <1>3. QED
    BY <1>1, <1>2, TypeCorrect, WindowInvariant, AnswerInvariant, StoredInvariant, PTL
    DEF Spec

(* A replay goes only to the key, the call and the proof that paid.        *)
THEOREM ReplaysAreBound == Spec => []ReplayBinding
  <1>1. ReplayedInv => ReplayBinding
    BY PaidNoneAssumption DEF ReplayedInv, ReplayOf, ReplayBinding
  <1>2. QED
    BY <1>1, ReplayedInvariant, PTL

(* Of the answers a handler gives after it submitted, only a refusal of    *)
(* the facilitator invites.                                                *)
LEMMA InvitingAnswers ==
    ASSUME NEW ans, Invites(ans)
    PROVE  ans \notin {"none", "served", "unknown"}
  BY DEF Invites, RetryLater, PaymentErrors, Error

(* A request that is answered now is one whose handler just ended.         *)
LEMMA AnsweredBy ==
    ASSUME TypeOK, [Next]_vars, NEW r \in Req, answer'[r] # answer[r]
    PROVE  \/ /\ pc[r] = "idle"
              /\ answer'[r] \notin {"claim_in_progress", "claim_capacity"}
           \/ \E accepted \in BOOLEAN : VerifyReturn(r, accepted)
           \/ pc[r] = "source" /\ wire' = wire /\ job' = job
              /\ answer'[r] \in {"source_failed", "claim_lost"}
           \/ pc[r] = "settle" /\ answer'[r] \in {"served", "declined", "unknown"}
  <1> USE DEF Finish, TypeOK
  <1>1. ASSUME NEW s \in Req, NEW k \in Key, NEW b \in Body, NEW p \in Proof,
               Arrive(s, k, b, p)
        PROVE  /\ s = r /\ pc[r] = "idle"
               /\ answer'[r] \notin {"claim_in_progress", "claim_capacity"}
    <2>1. s = r /\ pc[r] = "idle"
      BY <1>1 DEF Arrive, Collide, TurnAway, Admit, Replay
    <2>2. answer'[r] \in {"conflict", "in_progress", "replayed",
                          "proof_mismatch", "rejected", "capacity"}
      BY <1>1, <2>1
      DEF Arrive, Collide, TurnAway, Admit, Replay, ReplayAnswer
    <2>3. QED
      BY <2>1, <2>2
  <1>2. ASSUME NEW s \in Req, NEW f \in BOOLEAN, VerifyReturn(s, f)
        PROVE  s = r
    BY <1>2 DEF VerifyReturn, FailUnclaimed, Claim
  <1>3. ASSUME NEW s \in Req, NEW f \in BOOLEAN, SourceReturn(s, f)
        PROVE  /\ pc[r] = "source" /\ wire' = wire /\ job' = job
               /\ answer'[r] \in {"source_failed", "claim_lost"}
    BY <1>3 DEF SourceReturn, FailClaimed, Submit
  <1>4. ASSUME NEW s \in Req, NEW out \in {"served", "declined", "unknown"},
               SettleReturn(s, out)
        PROVE  pc[r] = "settle" /\ answer'[r] = out
    BY <1>4 DEF SettleReturn
  <1>5. CASE \/ \E s \in Req, result \in {"executed", "failed"} : Transfer(s, result)
             \/ \E s \in Req : Cancel(s)
             \/ \E d \in 0..MaxSkew : StepClock(d)
             \/ Tick \/ UNCHANGED vars
    BY <1>5 DEF Transfer, Cancel, StepClock, Tick, vars
  <1>6. QED
    BY <1>1, <1>2, <1>3, <1>4, <1>5 DEF Next

(* While a verified request finds its authorization's claim absent or only *)
(* reserved, nobody has submitted that authorization: a submitted one has  *)
(* its tombstone for as long as a verification may still come back.        *)
LEMMA Unspent ==
    ASSUME TypeOK, WindowInv, TombstoneInv, NEW r \in Req,
           pc[r] \in {"verify", "source"},
           \/ claims[AuthFor(r)].state = "reserved"
           \/ pc[r] = "verify" /\ ClaimState(r) = "fresh"
    PROVE  \A s \in Req : Submitted(s) => AuthFor(s) # AuthFor(r)
  <1>1. SUFFICES ASSUME NEW s \in Req, Submitted(s), AuthFor(s) = AuthFor(r)
                 PROVE  FALSE
    OBVIOUS
  <1>2. claims[AuthFor(r)].state # "reserved"
    BY <1>1 DEF TombstoneInv
  <1>3. pc[r] = "verify" /\ claims[AuthFor(r)].state # "complete"
    BY <1>2 DEF ClaimState, Lookup, IsPresent
  <1>4. /\ job[r].at < ValidBefore[AuthFor(r)]
        /\ now <= job[r].at + VerifyBound
    BY <1>3 DEF WindowInv
  <1>5. job[r].at \in Nat /\ now \in Nat /\ VerifyBound \in Nat
    BY PaidAssumption DEF TypeOK, Job
  <1>6. ValidBefore[AuthFor(r)] \in Nat
    BY <1>3, JobForms, PaidAssumption DEF Active
  <1>7. now < ValidBefore[AuthFor(s)] + VerifyBound
    BY <1>1, <1>4, <1>5, <1>6
  <1>8. QED
    BY <1>1, <1>3, <1>7 DEF TombstoneInv

(* No inviting answer is that of a transfer which may have executed.       *)
OwnInvitations ==
    \A r \in Req : Invites(answer[Behind(r)]) =>
        wire[Behind(r)] \notin {"submitted", "executed"}

(* An invitation to pay or to retry follows no transfer that may have      *)
(* executed, neither the answered request's own nor the replayed one's;    *)
(* and the claim store, or a handler that holds its claim, sends one only  *)
(* while nobody has submitted the authorization, under whatever wrapper.   *)
THEOREM InvitationsSafe == Spec => InvitationsAreSafe
  <1>1. AnswerInv /\ ReplayedInv => OwnInvitations
    <2> SUFFICES ASSUME AnswerInv, ReplayedInv, NEW r \in Req,
                        Invites(answer[Behind(r)])
                 PROVE  wire[Behind(r)] \notin {"submitted", "executed"}
      BY DEF OwnInvitations
    <2>1. PICK o : o = Behind(r)
      OBVIOUS
    <2>2. o \in Req
      BY <2>1 DEF Behind, ReplayedInv
    <2>3. answer[o] \notin {"none", "served", "unknown"}
      BY <2>1, InvitingAnswers
    <2>4. QED
      BY <2>1, <2>2, <2>3 DEF AnswerInv, Submitted
  <1>2. TypeOK /\ WindowInv /\ SubmissionInv /\ OwnInvitations' /\ [Next]_vars
           => [InvitationStep]_vars
    <2> SUFFICES ASSUME TypeOK, WindowInv, SubmissionInv,
                        OwnInvitations', [Next]_vars,
                        NEW r \in Req, answer'[r] # answer[r],
                        Invites(answer[Behind(r)])'
                 PROVE  /\ wire[Behind(r)]' \notin {"submitted", "executed"}
                        /\ \/ answer'[r] \in {"claim_in_progress", "claim_capacity"}
                           \/ pc[r] = "source" /\ OwnsClaim(r)
                           => \A s \in Req : Submitted(s) => AuthFor(s) # AuthFor(r)
      BY DEF InvitationStep
    <2>1. wire[Behind(r)]' \notin {"submitted", "executed"}
      BY DEF OwnInvitations
    <2>2. ASSUME answer'[r] \in {"claim_in_progress", "claim_capacity"}
          PROVE  \A s \in Req : Submitted(s) => AuthFor(s) # AuthFor(r)
      <3>1. PICK accepted \in BOOLEAN : VerifyReturn(r, accepted)
        BY <2>2, AnsweredBy
      <3>2. pc[r] = "verify" /\ Active(r)
        BY <3>1 DEF VerifyReturn, Active
      <3>3. \/ ClaimState(r) = "fresh"
            \/ ClaimState(r) # "fresh"
               /\ answer'[r] = ClaimRefusals[ClaimState(r)]
        BY <2>2, <3>1 DEF VerifyReturn, FailUnclaimed, Claim, Finish, TypeOK
      <3>4. ClaimState(r) = "fresh" \/ claims[AuthFor(r)].state = "reserved"
        BY <2>2, <3>2, <3>3, ClaimRefusalForms DEF ClaimAnswers
      <3>5. QED
        BY <3>2, <3>4, Unspent DEF SubmissionInv
    <2>3. ASSUME pc[r] = "source", OwnsClaim(r)
          PROVE  \A s \in Req : Submitted(s) => AuthFor(s) # AuthFor(r)
      BY <2>3, Unspent DEF OwnsClaim, Owns, SubmissionInv
    <2>4. QED
      BY <2>1, <2>2, <2>3
  <1>3. QED
    BY <1>1, <1>2, TypeCorrect, WindowInvariant, SubmissionInvariant,
       AnswerInvariant, ReplayedInvariant, PTL DEF Spec, InvitationsAreSafe
-----------------------------------------------------------------------------
(* A handler that ends has either submitted its settlement or given up     *)
(* what it reserved, in both ledgers.                                      *)
GivenUp(r) ==
    /\ \A k \in Key : (results[k].state = "reserved" /\ results[k].token = r)
          => results'[k] # results[k]
    /\ \A a \in Auth : (claims[a].state = "reserved" /\ claims[a].token = r)
          => claims'[a] # claims[a]

LEMMA EndEffect ==
    ASSUME TypeOK, WindowInv, AnswerInv, HolderInv, [Next]_vars, NEW r \in Req,
           pc[r] \notin {"idle", "done"}, pc'[r] = "done"
    PROVE  \/ pc[r] = "settle" /\ Submitted(r)'
           \/ GivenUp(r)
  <1>a. /\ WellFormed(results, Key) /\ WellFormed(claims, Auth)
        /\ pc \in [Req -> {"idle", "verify", "source", "settle", "done", "cancelled"}]
    BY DEF TypeOK
  <1>b. ASSUME Active(r), results' = Release(results, job[r].key, job[r].body, r),
               NEW k \in Key, results[k].state = "reserved", results[k].token = r
        PROVE  results'[k] # results[k]
    <2>1. job[r].key = k /\ job[r].body = results[k].fp
      BY <1>b DEF HolderInv, HoldsKey
    <2>2. results'[k] = Absent
      BY <1>a, <1>b, <2>1 DEF Release, Owns, WellFormed
    <2>3. QED
      BY <1>b, <2>2, EntryForms
  <1>1. ASSUME NEW s \in Req, NEW k \in Key, NEW b \in Body, NEW p \in Proof,
               Arrive(s, k, b, p)
        PROVE  FALSE
    BY <1>1, <1>a DEF Arrive, Collide, TurnAway, Admit, Replay, Finish
  <1>2. ASSUME NEW s \in Req, NEW f \in BOOLEAN, VerifyReturn(s, f)
        PROVE  GivenUp(r)
    <2>1. s = r /\ pc[r] = "verify"
      BY <1>2, <1>a DEF VerifyReturn, FailUnclaimed, Claim, Finish
    <2>2. results' = Release(results, job[r].key, job[r].body, r)
      BY <1>2, <1>a, <2>1 DEF VerifyReturn, FailUnclaimed, Claim
    <2>3. \A a \in Auth : ~(claims[a].state = "reserved" /\ claims[a].token = r)
      BY <2>1 DEF HolderInv, HoldsClaim
    <2>4. QED
      BY <1>b, <2>1, <2>2, <2>3 DEF GivenUp, Active
  <1>3. ASSUME NEW s \in Req, NEW f \in BOOLEAN, SourceReturn(s, f)
        PROVE  GivenUp(r)
    <2>1. s = r /\ pc[r] = "source"
      BY <1>3, <1>a DEF SourceReturn, FailClaimed, Submit, Finish
    <2>2. /\ results' = Release(results, job[r].key, job[r].body, r)
          /\ claims' = Release(claims, AuthFor(r), job[r].body, r)
      BY <1>3, <1>a, <2>1 DEF SourceReturn, FailClaimed, Submit
    <2>3. ASSUME NEW a \in Auth, claims[a].state = "reserved", claims[a].token = r
          PROVE  claims'[a] # claims[a]
      <3>1. AuthFor(r) = a /\ job[r].body = claims[a].fp
        BY <2>3 DEF HolderInv, HoldsClaim
      <3>2. claims'[a] = Absent
        BY <1>a, <2>2, <2>3, <3>1 DEF Release, Owns, WellFormed
      <3>3. QED
        BY <2>3, <3>2, EntryForms
    <2>4. QED
      BY <1>b, <2>1, <2>2, <2>3 DEF GivenUp, Active
  <1>4. ASSUME NEW s \in Req, NEW out \in {"served", "declined", "unknown"},
               SettleReturn(s, out)
        PROVE  pc[r] = "settle" /\ Submitted(r)'
    BY <1>4, <1>a DEF SettleReturn, Finish, AnswerInv, Submitted
  <1>5. CASE \/ \E s \in Req, result \in {"executed", "failed"} : Transfer(s, result)
             \/ \E s \in Req : Cancel(s)
             \/ \E d \in 0..MaxSkew : StepClock(d)
             \/ Tick \/ UNCHANGED vars
    BY <1>5, <1>a DEF Transfer, Cancel, StepClock, Tick, vars
  <1>6. QED
    BY <1>1, <1>2, <1>3, <1>4, <1>5 DEF Next

(* A request with a claim is at the source or cancelled until the claim is *)
(* released or entombed.                                                   *)
LEMMA ClaimantEffect ==
    ASSUME TypeOK, [Next]_vars, NEW r \in Req, pc[r] \in {"source", "cancelled"}
    PROVE  \/ pc'[r] \in {"source", "cancelled"}
           \/ pc'[r] = "done"
           \/ pc[r] = "source" /\ OwnsClaim(r) /\ Submit(r)
  <1> USE DEF TypeOK, Finish
  <1>1. ASSUME NEW s \in Req, NEW k \in Key, NEW b \in Body, NEW p \in Proof,
               Arrive(s, k, b, p)
        PROVE  pc'[r] = pc[r]
    BY <1>1 DEF Arrive, Collide, TurnAway, Admit, Replay
  <1>2. ASSUME NEW s \in Req, NEW f \in BOOLEAN, VerifyReturn(s, f)
        PROVE  pc'[r] = pc[r]
    BY <1>2 DEF VerifyReturn, FailUnclaimed, Claim
  <1>3. ASSUME NEW s \in Req, NEW f \in BOOLEAN, SourceReturn(s, f)
        PROVE  \/ pc'[r] = pc[r] \/ pc'[r] = "done"
               \/ pc[r] = "source" /\ OwnsClaim(r) /\ Submit(r)
    BY <1>3 DEF SourceReturn, FailClaimed, Submit
  <1>4. ASSUME NEW s \in Req, NEW out, SettleReturn(s, out)
        PROVE  pc'[r] = pc[r]
    BY <1>4 DEF SettleReturn
  <1>5. ASSUME NEW s \in Req, Cancel(s)
        PROVE  pc'[r] \in {"source", "cancelled"}
    BY <1>5 DEF Cancel
  <1>6. CASE \/ \E s \in Req, result \in {"executed", "failed"} : Transfer(s, result)
             \/ \E d \in 0..MaxSkew : StepClock(d)
             \/ Tick \/ UNCHANGED vars
    BY <1>6 DEF Transfer, StepClock, Tick, vars
  <1>7. QED
    BY <1>1, <1>2, <1>3, <1>4, <1>5, <1>6 DEF Next

(* Every reservation has a living reason.                                  *)
THEOREM HolderInvariant == Spec => []HolderInv
  <1>1. Init => HolderInv
    BY EntryForms DEF Init, HolderInv
  <1>2. TypeOK /\ WindowInv /\ AnswerInv /\ HolderInv /\ [Next]_vars => HolderInv'
    <2> SUFFICES ASSUME TypeOK, WindowInv, AnswerInv, HolderInv, [Next]_vars
                 PROVE  HolderInv'
      OBVIOUS
    <2>a. results \in [Key -> Entry] /\ claims \in [Auth -> Entry]
      BY DEF TypeOK, WellFormed
    <2>1. ASSUME NEW k \in Key, results'[k].state = "reserved"
          PROVE  \E r \in Req : results'[k].token = r /\ HoldsKey(k, r)'
      <3>1. CASE results'[k] = results[k]
        <4>1. PICK r \in Req : results[k].token = r /\ HoldsKey(k, r)
          BY <2>1, <3>1 DEF HolderInv
        <4>2. pc'[r] # "idle" /\ job'[r] = job[r]
          BY <4>1, BegunEffect DEF HoldsKey
        <4>3. pc'[r] = "done" => Submitted(r)'
          <5>1. CASE pc[r] = "done"
            BY <4>1, <5>1, StepEffect DEF HoldsKey
          <5>2. CASE pc[r] # "done"
            BY <2>1, <3>1, <4>1, <5>2, EndEffect DEF HoldsKey, GivenUp
          <5>3. QED
            BY <5>1, <5>2
        <4>4. HoldsKey(k, r)'
          BY <3>1, <4>1, <4>2, <4>3 DEF HoldsKey, Submitted
        <4>5. QED
          BY <3>1, <4>1, <4>4
      <3>2. ASSUME NEW r \in Req, AdmittedInto(k, r)
            PROVE  results'[k].token = r /\ HoldsKey(k, r)'
        BY <3>2 DEF AdmittedInto, HoldsKey
      <3>3. ~Vacated(results, results', k)
        BY <2>1, EntryForms DEF Vacated
      <3>4. ASSUME NEW r \in Req, NEW out, SettledInto(k, r, out)
            PROVE  FALSE
        BY <2>1, <2>a, <3>4 DEF SettledInto, Completed, Entry
      <3>5. QED
        BY <3>1, <3>2, <3>3, <3>4, ResultsEffect
    <2>2. ASSUME NEW a \in Auth, claims'[a].state = "reserved"
          PROVE  \E r \in Req : claims'[a].token = r /\ HoldsClaim(a, r)'
      <3>1. CASE claims'[a] = claims[a]
        <4>1. PICK r \in Req : claims[a].token = r /\ HoldsClaim(a, r)
          BY <2>2, <3>1 DEF HolderInv
        <4>2. job'[r] = job[r] /\ AuthFor(r)' = AuthFor(r)
          BY <4>1, BegunEffect DEF HoldsClaim, AuthFor
        <4>3. ~(OwnsClaim(r) /\ Submit(r))
          <5>1. SUFFICES ASSUME OwnsClaim(r), Submit(r) PROVE FALSE
            OBVIOUS
          <5>2. claims'[a] = Completed(claims[a],
                                       [by |-> r, ok |-> TRUE, proof |-> None],
                                       now + ClaimTTL)
            BY <2>a, <4>1, <5>1 DEF HoldsClaim, Submit, OwnsClaim, Commit
          <5>3. claims'[a].state = "complete"
            BY <2>a, <5>2 DEF Completed, Entry
          <5>4. QED
            BY <2>2, <5>3
        <4>4. pc'[r] # "done"
          BY <2>2, <3>1, <4>1, EndEffect DEF HoldsClaim, GivenUp
        <4>5. pc'[r] \in {"source", "cancelled"}
          BY <4>1, <4>3, <4>4, ClaimantEffect DEF HoldsClaim
        <4>6. QED
          BY <3>1, <4>1, <4>2, <4>5 DEF HoldsClaim
      <3>2. ASSUME NEW r \in Req, ClaimedInto(a, r)
            PROVE  claims'[a].token = r /\ HoldsClaim(a, r)'
        BY <3>2 DEF ClaimedInto, HoldsClaim, AuthFor
      <3>3. ~Vacated(claims, claims', a)
        BY <2>2, EntryForms DEF Vacated
      <3>4. ASSUME NEW r \in Req, EntombedInto(a, r)
            PROVE  FALSE
        BY <2>2, <2>a, <3>4 DEF EntombedInto, Completed, Entry
      <3>5. QED
        BY <3>1, <3>2, <3>3, <3>4, ClaimsEffect
    <2>3. QED
      BY <2>1, <2>2 DEF HolderInv
  <1>3. QED
    BY <1>1, <1>2, TypeCorrect, WindowInvariant, AnswerInvariant, PTL DEF Spec

(* A failure before settlement leaves nothing reserved.                    *)
THEOREM FailuresRelease == Spec => []FailureReleases
  <1>1. HolderInv => FailureReleases
    BY DEF HolderInv, HoldsKey, HoldsClaim, FailureReleases
  <1>2. QED
    BY <1>1, HolderInvariant, PTL
-----------------------------------------------------------------------------
(* A request that has not arrived has no job.                              *)
IdleInv == \A r \in Req : pc[r] = "idle" => job[r] = NoJob

THEOREM IdleInvariant == Spec => []IdleInv
  <1>1. Init => IdleInv
    BY DEF Init, IdleInv
  <1>2. TypeOK /\ IdleInv /\ [Next]_vars => IdleInv'
    <2> SUFFICES ASSUME TypeOK, IdleInv, [Next]_vars, NEW r \in Req,
                        pc'[r] = "idle"
                 PROVE  job'[r] = NoJob
      BY DEF IdleInv
    <2>a. pc[r] = "idle"
      BY BegunEffect
    <2>b. job[r] = NoJob
      BY <2>a DEF IdleInv
    <2> USE DEF TypeOK, Finish
    <2>1. ASSUME NEW s \in Req, NEW k \in Key, NEW b \in Body, NEW p \in Proof,
                 Arrive(s, k, b, p)
          PROVE  job'[r] = job[r]
      BY <2>1 DEF Arrive, Collide, Replay, TurnAway, Admit, Accept
    <2>2. CASE job' = job
      BY <2>2, <2>b
    <2>3. QED
      BY <2>1, <2>2, <2>b
      DEF Next, VerifyReturn, SourceReturn, SettleReturn, Transfer, Cancel,
          StepClock, Tick, vars
  <1>3. QED
    BY <1>1, <1>2, TypeCorrect, PTL DEF Spec

(* A request looks the same to its client when neither its job nor whether *)
(* its replay was denied changes.                                          *)
LEMMA SameAsked ==
    ASSUME NEW r, job'[r] = job[r],
           answer'[r] = "proof_mismatch" <=> answer[r] = "proof_mismatch"
    PROVE  Asked(r)' = Asked(r)
  BY DEF Asked

(* A step of the promise for one request.                                  *)
LEMMA StepMaps ==
    ASSUME NEW r \in Req, Promise!Step(r)
    PROVE  [Promise!Next]_(Promise!vars)
  BY DEF Promise!Next

(* What ends a handler before submission is a refusal.                     *)
LEMMA RefusalMaps ==
    ASSUME TypeOK, NEW r \in Req, NEW ans \in Answers, Finish(r, ans),
           ans \notin {"none", "served", "declined", "unknown", "replayed"},
           answer[r] = "none", wire[r] = "none", wire' = wire,
           \A s \in Req : Asked(s)' = Asked(s)
    PROVE  [Promise!Next]_(Promise!vars)
  <1>1. Public(ans) = "refused" /\ Public("none") = "none"
    BY DEF Public
  <1>2. \A s \in Req : Public(answer'[s]) =
            IF s = r THEN "refused" ELSE Public(answer[s])
    BY <1>1 DEF Finish, TypeOK
  <1>3. [s \in Req |-> Public(answer[s])]' =
            [[s \in Req |-> Public(answer[s])] EXCEPT ![r] = "refused"]
    BY <1>2
  <1>4. [s \in Req |-> Asked(s)]' = [s \in Req |-> Asked(s)]
    OBVIOUS
  <1>5. Promise!Refuse(r)
    BY <1>1, <1>3, <1>4 DEF Promise!Refuse
  <1>6. QED
    BY <1>5, StepMaps DEF Promise!Step
(* A step that changes no job, no settlement and no answer is a stutter.   *)
LEMMA QuietMaps ==
    ASSUME job' = job, wire' = wire, answer' = answer
    PROVE  UNCHANGED Promise!vars
  BY DEF Promise!vars, Asked

(* A job that names a key was asked; NoJob was not.                        *)
LEMMA AskedForms ==
    ASSUME NEW r \in Req
    PROVE  /\ job[r] = NoJob => Asked(r) = Promise!Nothing
           /\ answer[r] = "proof_mismatch" => Asked(r) = Promise!Nothing
           /\ (answer[r] # "proof_mismatch" /\ job[r].key \in Key) =>
                 /\ Asked(r) # Promise!Nothing
                 /\ Asked(r) = Promise!Request(job[r].key, job[r].body,
                                               job[r].proof, job[r].from)
  BY PaidNoneAssumption DEF Asked, NoJob, Promise!Nothing, Promise!Request

(* What the refinement needs to know of a state.                           *)
PromiseInv ==
    /\ TypeOK /\ WindowInv /\ AnswerInv /\ StoredInv /\ IdleInv
    /\ TombstoneInv

(* Arrival: taken in, replayed or refused.                                 *)
LEMMA ArriveMaps ==
    ASSUME PromiseInv, NEW r \in Req, NEW k \in Key, NEW b \in Body,
           NEW p \in Proof, Arrive(r, k, b, p)
    PROVE  [Promise!Next]_(Promise!vars)
  <1>a. /\ pc[r] = "idle" /\ answer[r] = "none" /\ wire[r] = "none"
        /\ job[r] = NoJob /\ wire' = wire
    BY DEF Arrive, PromiseInv, IdleInv, AnswerInv, WindowInv
  <1>b. /\ job \in [Req -> Job] /\ answer \in [Req -> Answers]
        /\ results \in [Key -> Entry]
    BY DEF PromiseInv, TypeOK, WellFormed
  <1>c. Asked(r) = Promise!Nothing
    BY <1>a, AskedForms
  <1>d. ASSUME NEW ans \in Answers, Finish(r, ans),
               ans \notin {"none", "served", "declined", "unknown", "replayed"},
               \A s \in Req : Asked(s)' = Asked(s)
        PROVE  [Promise!Next]_(Promise!vars)
    BY <1>a, <1>d, RefusalMaps DEF PromiseInv
  <1>1. ASSUME job' = job, NEW ans \in Answers, Finish(r, ans),
               ans \in {"conflict", "in_progress", "rejected", "capacity"}
        PROVE  [Promise!Next]_(Promise!vars)
    <2>1. \A s \in Req : Asked(s)' = Asked(s)
      BY <1>1, <1>a, <1>b DEF Asked, Finish
    <2>2. QED
      BY <1>d, <1>1, <2>1
  <1>2. CASE Collide(r, k, b, p)
    BY <1>2, <1>1 DEF Collide, Answers
  <1>3. CASE TurnAway(r, k, b, p)
    BY <1>3, <1>1 DEF TurnAway, Answers
  <1>4. CASE Replay(r, k, b, p)
    <2>1. /\ results[k].state = "complete" /\ results[k].fp = b
          /\ results[k].resp \in Outcome
      <3>1. results[k] \in Entry
        BY <1>b
      <3>2. results[k].state = "complete" /\ results[k].fp = b
        BY <1>4, <3>1 DEF Replay, Lookup, Entry, States, IsPresent
      <3>3. QED
        BY <3>2 DEF PromiseInv, TypeOK, WellFormed
    <2>2. PICK o \in Req : o = results[k].resp.by
      BY <2>1 DEF Outcome
    <2>3. StoredBy(k, o)
      BY <2>1, <2>2 DEF PromiseInv, StoredInv
    <2>4. job' = [job EXCEPT ![r] = [key |-> k, body |-> b, proof |-> p,
                                     at |-> now, from |-> o]]
      BY <1>4, <2>2 DEF Replay, Accept
    <2>5. Finish(r, ReplayAnswer(results[k].resp, p))
      BY <1>4 DEF Replay
    <2>6. \A s \in Req : s # r => Asked(s)' = Asked(s)
      BY <2>4, <2>5, <1>b DEF Asked, Finish
    <2>7. CASE results[k].resp.proof # p
      <3>1. Finish(r, "proof_mismatch")
        BY <2>5, <2>7 DEF ReplayAnswer
      <3>2. answer'[r] = "proof_mismatch"
        BY <3>1, <1>b DEF Finish
      <3>3. Asked(r)' = Asked(r)
        BY <3>2, <1>a, <1>c DEF Asked, NoJob
      <3>4. QED
        BY <1>d, <3>1, <3>3, <2>6 DEF Answers
    <2>8. CASE results[k].resp.proof = p
      <3>1. Finish(r, "replayed")
        BY <2>5, <2>8 DEF ReplayAnswer
      <3>2. /\ answer[o] \in {"served", "declined", "unknown"}
            /\ job[o].key = k /\ job[o].body = b /\ job[o].proof = p
        BY <2>1, <2>3, <2>8 DEF StoredBy
      <3>3. Asked(o) = Promise!Request(k, b, p, job[o].from)
        BY <3>2, AskedForms
      <3>4. /\ Asked(o).key = k /\ Asked(o).body = b /\ Asked(o).proof = p
        BY <3>3 DEF Promise!Request
      <3>5. Asked(r)' = Promise!Request(k, b, p, o)
        BY <3>1, <2>4, <1>b DEF Asked, Finish, Promise!Request
      <3>6. [s \in Req |-> Asked(s)]' =
              [[s \in Req |-> Asked(s)] EXCEPT
                 ![r] = Promise!Request(Asked(o).key, Asked(o).body, Asked(o).proof, o)]
        BY <2>6, <3>4, <3>5
      <3>7. [s \in Req |-> Public(answer[s])]' =
              [[s \in Req |-> Public(answer[s])] EXCEPT ![r] = "replayed"]
        BY <3>1, <1>b DEF Finish, Public
      <3>8. Public(answer[o]) \in Promise!Settled /\ Public(answer[r]) = "none"
        BY <3>2, <1>a DEF Public, Promise!Settled
      <3>9. Promise!Replay(r)
        BY <1>a, <1>c, <3>6, <3>7, <3>8 DEF Promise!Replay
      <3>10. QED
        BY <3>9, StepMaps DEF Promise!Step
    <2>9. QED
      BY <2>7, <2>8
  <1>5. CASE Admit(r, k, b, p)
    <2>1. job' = [job EXCEPT ![r] = [key |-> k, body |-> b, proof |-> p,
                                     at |-> now, from |-> None]]
      BY <1>5 DEF Admit, Accept
    <2>2. answer' = answer /\ b \in Body \ BadBody /\ IdentifierOf[p] = k
      BY <1>5 DEF Admit, Acceptable
    <2>3. Asked(r)' = Promise!Request(k, b, p, None)
      BY <2>1, <2>2, <1>a, <1>b DEF Asked, Promise!Request
    <2>4. [s \in Req |-> Asked(s)]' =
            [[s \in Req |-> Asked(s)] EXCEPT ![r] = Promise!Request(k, b, p, None)]
      BY <2>1, <2>2, <2>3, <1>b DEF Asked
    <2>5. Promise!Ask(r)
      BY <1>a, <1>c, <2>2, <2>4 DEF Promise!Ask, Public
    <2>6. QED
      BY <2>5, StepMaps DEF Promise!Step
  <1>6. QED
    BY <1>2, <1>3, <1>4, <1>5 DEF Arrive
(* The verifier answered: claimed in silence, or refused.                  *)
LEMMA VerifyMaps ==
    ASSUME PromiseInv, NEW r \in Req, NEW accepted \in BOOLEAN,
           VerifyReturn(r, accepted)
    PROVE  [Promise!Next]_(Promise!vars)
  <1>a. /\ pc[r] = "verify" /\ answer[r] = "none" /\ wire[r] = "none"
        /\ job' = job /\ wire' = wire
    BY DEF VerifyReturn, PromiseInv, AnswerInv, WindowInv
  <1>b. answer \in [Req -> Answers]
    BY DEF PromiseInv, TypeOK
  <1>1. ASSUME NEW ans \in {"verify_failed", "claim_capacity"} \cup ClaimAnswers,
               FailUnclaimed(r, ans)
        PROVE  [Promise!Next]_(Promise!vars)
    <2>1. Finish(r, ans) /\ ans \in Answers
      BY <1>1 DEF FailUnclaimed, ClaimAnswers, Answers
    <2>2. \A s \in Req : Asked(s)' = Asked(s)
      BY <2>1, <1>1, <1>a, <1>b DEF Asked, Finish, ClaimAnswers
    <2>3. QED
      BY <2>1, <2>2, <1>1, <1>a, RefusalMaps DEF PromiseInv, ClaimAnswers
  <1>2. CASE Claim(r)
    BY <1>2, <1>a, QuietMaps DEF Claim
  <1>3. ClaimState(r) # "fresh" => ClaimRefusals[ClaimState(r)] \in ClaimAnswers
    BY <1>a, ClaimRefusalForms DEF PromiseInv, Active
  <1>4. QED
    BY <1>1, <1>2, <1>3 DEF VerifyReturn

(* The source was resolved: refused, or submitted, and then nobody has     *)
(* submitted that authorization before, since its claim is a reservation   *)
(* and theirs would be a tombstone.                                        *)
LEMMA SourceMaps ==
    ASSUME PromiseInv, NEW r \in Req, NEW resolved \in BOOLEAN,
           SourceReturn(r, resolved)
    PROVE  [Promise!Next]_(Promise!vars)
  <1>a. /\ pc[r] = "source" /\ answer[r] = "none" /\ wire[r] = "none"
        /\ job' = job
    BY DEF SourceReturn, PromiseInv, AnswerInv, WindowInv
  <1>b. /\ answer \in [Req -> Answers]
        /\ wire \in [Req -> {"none", "submitted", "executed", "failed"}]
    BY DEF PromiseInv, TypeOK
  <1>1. ASSUME NEW ans \in {"source_failed", "claim_lost"}, FailClaimed(r, ans)
        PROVE  [Promise!Next]_(Promise!vars)
    <2>1. Finish(r, ans) /\ ans \in Answers /\ wire' = wire
      BY <1>1 DEF FailClaimed, Answers
    <2>2. \A s \in Req : Asked(s)' = Asked(s)
      BY <2>1, <1>1, <1>a, <1>b DEF Asked, Finish
    <2>3. QED
      BY <2>1, <2>2, <1>1, <1>a, RefusalMaps DEF PromiseInv
  <1>2. CASE OwnsClaim(r) /\ Submit(r)
    <2>1. \A s \in Req : Submitted(s) =>
            /\ answer[s] # "proof_mismatch" /\ AuthFor(s) # AuthFor(r)
      BY <1>2 DEF PromiseInv, AnswerInv, TombstoneInv, OwnsClaim, Owns
    <2>2. \A s \in Req : answer[s] # "proof_mismatch" => Asked(s).proof = job[s].proof
      BY DEF Asked
    <2>3. \A s \in Req : wire[s] # "none" =>
            AuthOf[Asked(s).proof] # AuthOf[Asked(r).proof]
      BY <2>1, <2>2, <1>a DEF Submitted, AuthFor
    <2>4. job[r].key \in Key
      BY <1>a, JobForms DEF PromiseInv, Active
    <2>5. Asked(r) # Promise!Nothing
      BY <2>4, <1>a, AskedForms
    <2>6. /\ wire' = [wire EXCEPT ![r] = "submitted"] /\ answer' = answer
      BY <1>2 DEF Submit
    <2>7. UNCHANGED <<[s \in Req |-> Asked(s)], [s \in Req |-> Public(answer[s])]>>
      BY <2>6, <1>a DEF Asked
    <2>8. Promise!Submit(r)
      BY <1>a, <2>3, <2>5, <2>6, <2>7
      DEF Promise!Submit, Promise!AuthorizationOf, Public
    <2>9. QED
      BY <2>8, StepMaps DEF Promise!Step
  <1>3. QED
    BY <1>1, <1>2 DEF SourceReturn

(* The facilitator answered, and the client is told.                       *)
LEMMA SettleMaps ==
    ASSUME PromiseInv, NEW r \in Req, NEW out \in {"served", "declined", "unknown"},
           SettleReturn(r, out)
    PROVE  [Promise!Next]_(Promise!vars)
  <1>a. /\ pc[r] = "settle" /\ answer[r] = "none" /\ wire[r] # "none"
        /\ job' = job /\ wire' = wire /\ Finish(r, out) /\ SettlementKnown(r, out)
    BY DEF SettleReturn, PromiseInv, AnswerInv, Submitted
  <1>b. answer \in [Req -> Answers]
    BY DEF PromiseInv, TypeOK
  <1>1. \A s \in Req : Asked(s)' = Asked(s)
    BY <1>a, <1>b DEF Asked, Finish
  <1>2. [s \in Req |-> Asked(s)]' = [s \in Req |-> Asked(s)]
    BY <1>1
  <1>3. [s \in Req |-> Public(answer[s])]' =
          [[s \in Req |-> Public(answer[s])] EXCEPT ![r] = out]
    BY <1>a, <1>b DEF Finish, Public
  <1>4. Promise!Settle(r)
    BY <1>a, <1>2, <1>3 DEF Promise!Settle, Promise!Settled, SettlementKnown, Public
  <1>5. QED
    BY <1>4, StepMaps DEF Promise!Step

(* The facilitator and the chain act as they do in the promise.            *)
LEMMA TransferMaps ==
    ASSUME PromiseInv, NEW r \in Req, NEW result \in {"executed", "failed"},
           Transfer(r, result)
    PROVE  [Promise!Next]_(Promise!vars)
  <1>1. UNCHANGED <<[s \in Req |-> Asked(s)], [s \in Req |-> Public(answer[s])]>>
    BY DEF Transfer, Asked
  <1>2. Promise!Transfer(r)
    BY <1>1 DEF Transfer, Promise!Transfer
  <1>3. QED
    BY <1>2, StepMaps DEF Promise!Step

(* The paid path, with its two expiring ledgers, its clocks and cancelled  *)
(* handlers, keeps the timeless promise (KeepsPromise).                    *)
THEOREM PaidPromiseIsKept == Spec => KeepsPromise
  <1>1. Init => Promise!Init
    <2> SUFFICES ASSUME Init PROVE Promise!Init
      OBVIOUS
    <2>1. \A r \in Req : Asked(r) = Promise!Nothing
      BY AskedForms DEF Init
    <2>2. \A r \in Req : Public(answer[r]) = "none"
      BY DEF Init, Public
    <2>3. QED
      BY <2>1, <2>2 DEF Init, Promise!Init
  <1>2. PromiseInv /\ [Next]_vars => [Promise!Next]_(Promise!vars)
    <2> SUFFICES ASSUME PromiseInv, [Next]_vars
                 PROVE  [Promise!Next]_(Promise!vars)
      OBVIOUS
    <2>1. CASE \E r \in Req : Cancel(r)
      BY <2>1, QuietMaps DEF Cancel
    <2>2. CASE \/ \E d \in 0..MaxSkew : StepClock(d)
               \/ Tick \/ UNCHANGED vars
      BY <2>2, QuietMaps DEF StepClock, Tick, vars
    <2>3. QED
      BY <2>1, <2>2, ArriveMaps, VerifyMaps, SourceMaps, SettleMaps, TransferMaps
      DEF Next
  <1>3. Spec => []PromiseInv
    BY TypeCorrect, WindowInvariant, AnswerInvariant, StoredInvariant,
       IdleInvariant, SubmissionInvariant, PTL DEF PromiseInv, SubmissionInv
  <1>4. QED
    BY <1>1, <1>2, <1>3, PTL DEF Spec, KeepsPromise, Promise!Spec
=============================================================================
