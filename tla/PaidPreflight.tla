--------------------------- MODULE PaidPreflight ----------------------------
(***************************************************************************)
(* The x402 path of POST /v1/preflight (lucent/api.py,                     *)
(* transaction_preflight) with the payment gateway (lucent/payments.py)    *)
(* and the two ledgers it keeps: results, by Idempotency-Key, and claims,  *)
(* by signed transfer authorization.                                       *)
(*                                                                         *)
(* The handler runs on one event loop, so the code between two awaits is   *)
(* one action.  It awaits three times: the facilitator's verify, the       *)
(* verified-source resolution and the facilitator's settle.  At each await *)
(* other requests run, time passes and the task may be cancelled; a        *)
(* cancellation is not an Exception, so no handler runs and reservations   *)
(* stay until their TTL, while the thread behind the await carries on.     *)
(*                                                                         *)
(* Both stores are configured without eviction.  They are the ledgers of   *)
(* ReplayLedger, which IdempotencyStore implements: entries vanish the     *)
(* moment they expire, and a request is the token of its reservations.     *)
(***************************************************************************)
EXTENDS Ledger, FiniteSets

CONSTANTS
    Req,              \* requests
    Key,              \* Idempotency-Key values
    Body, BadBody,    \* canonical requests; those the first pass rejects
    Proof,            \* PAYMENT-SIGNATURE values
    Auth,             \* signed EIP-3009 authorizations
    AuthOf,           \* Proof -> Auth: the authorization a proof wraps
    IdentifierOf,     \* Proof -> Key: its payment-identifier extension
    ValidAfter,       \* Auth -> Nat, wall clock
    ValidBefore,      \* Auth -> Nat, wall clock
    MaxTimeout,       \* max_timeout_seconds of the payment terms
    VerifyBound,      \* longest time a facilitator verify takes
    MaxSkew,          \* how far the wall clock may step
    ReservationTTL,   \* reservation_ttl_seconds of both stores
    ClaimTTL,         \* ttl_seconds of both stores
    ResultLimits,     \* limits of the result store
    ClaimLimits,      \* limits of the claim store
    LastArrival,      \* bound: no request arrives later
    MaxTime           \* bound on the monotonic clock

(* The constants of lucent/hosted.py and lucent/payments.py satisfy the    *)
(* last conjunct with room to spare: 300 s of payment window against a     *)
(* claim kept 900 s leaves 600 s for the verifier and for clock steps.     *)
ASSUME PaidAssumption ==
    /\ BadBody \subseteq Body
    /\ AuthOf \in [Proof -> Auth]
    /\ IdentifierOf \in [Proof -> Key]
    /\ ValidAfter \in [Auth -> Nat] /\ ValidBefore \in [Auth -> Nat]
    /\ MaxTimeout \in Nat /\ VerifyBound \in Nat /\ MaxSkew \in Nat
    /\ ReservationTTL \in Nat \ {0} /\ ClaimTTL \in Nat \ {0}
    /\ LastArrival \in Nat /\ MaxTime \in Nat
    /\ MaxSkew + MaxTimeout + VerifyBound <= ClaimTTL

Limits == [entries : Nat, hold : Nat, size : Nat, total : Nat]
ASSUME LimitsAssumption == ResultLimits \in Limits /\ ClaimLimits \in Limits

ASSUME PaidNoneAssumption == None \notin Req \cup Key \cup Body \cup Proof

VARIABLES
    now,       \* the monotonic clock of both stores
    skew,      \* time.time() - now, up to a constant
    results,   \* payment_idempotency: Key -> entry
    claims,    \* payment_claims: Auth -> entry
    pc,        \* where each request's handler stands
    job,       \* what each admitted or replayed request asked for, and when
    wire,      \* the settlement as the facilitator and the chain see it
    answer     \* what each request was told

vars == <<now, skew, results, claims, pc, job, wire, answer>>

NoJob == [key |-> None, body |-> None, proof |-> None, at |-> 0, from |-> None]

AuthFor(r) == AuthOf[job[r].proof]
Submitted(r) == wire[r] # "none"
Active(r) == pc[r] \in {"verify", "source", "settle"}
-----------------------------------------------------------------------------
(* The window test of verify(), on the wall clock.                         *)
Wall == now + skew

InWindowOpenEnded(p) ==                     \* mutant: no upper limit
    /\ ValidAfter[AuthOf[p]] <= Wall
    /\ Wall < ValidBefore[AuthOf[p]]
InWindow(p) ==
    /\ ValidAfter[AuthOf[p]] <= Wall
    /\ Wall < ValidBefore[AuthOf[p]]
    /\ ValidBefore[AuthOf[p]] <= Wall + MaxTimeout

(* What the handler checks, after it reserved the key and before its first *)
(* await: the first pure pass over the call, the payment identifier and    *)
(* the authorization window.                                               *)
Acceptable(k, b, p) == b \notin BadBody /\ IdentifierOf[p] = k /\ InWindow(p)

(* reserve() in a store without eviction: one more entry, and hold bytes   *)
(* promised to every reservation while size bytes are kept per outcome.    *)
InState(L, s) == {k \in DOMAIN L : L[k].state = s}
HasRoom(L, limits) ==
    /\ Cardinality(Present(L)) < limits.entries
    /\ limits.hold * (Cardinality(InState(L, "reserved")) + 1)
         + limits.size * Cardinality(InState(L, "complete")) <= limits.total

(* abort(): only the owner releases.                                       *)
ReleaseAny(L, k, fp, r) == [L EXCEPT ![k] = Absent]             \* mutant
ReleaseNothing(L, k, fp, r) == L                                \* mutant
Release(L, k, fp, r) ==
    [L EXCEPT ![k] = IF Owns(@, fp, r) THEN Absent ELSE @]

(* commit(): only the owner publishes; otherwise the failure is logged.    *)
CommitAny(L, k, fp, r, resp) ==                                 \* mutant
    [L EXCEPT ![k] = [Completed(@, resp, now + ClaimTTL) EXCEPT !.fp = fp,
                                                                !.token = r]]
Commit(L, k, fp, r, resp) ==
    [L EXCEPT ![k] = IF Owns(@, fp, r)
                     THEN Completed(@, resp, now + ClaimTTL) ELSE @]
-----------------------------------------------------------------------------
(* The handler ends with an answer; from is the request whose stored       *)
(* response was replayed.                                                  *)
Finish(r, ans) ==
    /\ pc' = [pc EXCEPT ![r] = "done"]
    /\ answer' = [answer EXCEPT ![r] = ans]

(* _replay_response(): the stored proof must be the one presented.         *)
ReplayUnproved(resp, p) == "replayed"                           \* mutant
ReplayAnswer(resp, p) == IF resp.proof = p THEN "replayed" ELSE "proof_mismatch"

(* What is raised behind each answer: the status and the two flags of a    *)
(* PaymentError, as the handler, verify(), settle() and the facilitator    *)
(* client set them.  A settlement whose transport failed is made terminal, *)
(* although the client raised the same error as retryable.                 *)
Error(status, retryable, terminal) ==
    [status |-> status, retryable |-> retryable, terminal |-> terminal]
Unterminated(ans) ==               \* mutant: settle() leaves the flags alone
    CASE ans \in {"proof_mismatch", "declined"} -> {Error(402, FALSE, FALSE)}
      [] ans = "unknown"       -> {Error(502, TRUE, FALSE)}
      [] OTHER                 -> {}
PaymentErrors(ans) ==
    CASE ans = "proof_mismatch" -> {Error(402, FALSE, FALSE)}
      [] ans = "rejected"       -> {Error(402, FALSE, FALSE)}
      [] ans = "verify_failed"  -> {Error(402, FALSE, FALSE), Error(502, TRUE, FALSE)}
      [] ans = "claim_used"     -> {Error(409, FALSE, TRUE)}
      [] ans = "declined"       -> {Error(402, FALSE, TRUE)}
      [] ans = "unknown"        -> {Error(502, FALSE, TRUE)}
      [] OTHER                  -> {}

(* AccessError.response_headers, verified_source_error(): the errors of    *)
(* the ledgers and of the source that carry Retry-After.  An               *)
(* IdempotencyConflictError and an InvalidReservationError carry none.     *)
RetryLater == {"in_progress", "capacity", "claim_in_progress",
               "claim_capacity", "source_failed"}

(* _payment_failure_headers(): a 402 carries a new challenge, and a        *)
(* retryable failure that is not terminal carries Retry-After.             *)
Invites(ans) ==
    \/ ans \in RetryLater
    \/ \E e \in PaymentErrors(ans) : e.status = 402 \/ (e.retryable /\ ~e.terminal)

(* Everything up to the first await.  The job of a request refused on      *)
(* arrival is not recorded.                                                *)
Accept(r, k, b, p, from) ==
    job' = [job EXCEPT ![r] = [key |-> k, body |-> b, proof |-> p,
                               at |-> now, from |-> from]]

(* The key is in use: IdempotencyConflictError, IdempotencyInProgressError.*)
Collide(r, k, b, p) ==
    /\ Lookup(results[k], b) \in {"conflict", "in_progress"}
    /\ Finish(r, Lookup(results[k], b))
    /\ UNCHANGED <<results, job>>

Replay(r, k, b, p) ==
    /\ Lookup(results[k], b) = "replay"
    /\ Accept(r, k, b, p, results[k].resp.by)
    /\ Finish(r, ReplayAnswer(results[k].resp, p))
    /\ UNCHANGED results

(* No room for a reservation, or the pure checks refuse the request: then  *)
(* the key was reserved and aborted in the same step.                      *)
TurnAway(r, k, b, p) ==
    /\ Lookup(results[k], b) = "fresh"
    /\ ~(HasRoom(results, ResultLimits) /\ Acceptable(k, b, p))
    /\ Finish(r, IF HasRoom(results, ResultLimits) THEN "rejected"
                                                   ELSE "capacity")
    /\ UNCHANGED <<results, job>>

Admit(r, k, b, p) ==
    /\ Lookup(results[k], b) = "fresh"
    /\ HasRoom(results, ResultLimits) /\ Acceptable(k, b, p)
    /\ results' = [results EXCEPT ![k] =
          Reserved(b, r, now + ReservationTTL, ResultLimits.hold)]
    /\ Accept(r, k, b, p, None)
    /\ pc' = [pc EXCEPT ![r] = "verify"]
    /\ UNCHANGED answer

Arrive(r, k, b, p) ==
    /\ pc[r] = "idle" /\ now <= LastArrival
    /\ \/ Collide(r, k, b, p)
       \/ Replay(r, k, b, p)
       \/ TurnAway(r, k, b, p)
       \/ Admit(r, k, b, p)
    /\ UNCHANGED <<now, skew, claims, wire>>

(* The facilitator's verify returns: refused or unavailable, or accepted;  *)
(* then the authorization is claimed, unless it is claimed already.        *)
FailUnclaimed(r, ans) ==
    /\ results' = Release(results, job[r].key, job[r].body, r)
    /\ Finish(r, ans)
    /\ UNCHANGED claims

ClaimStateIgnored(r) == "fresh"                                 \* mutant
ClaimStateBusy(r) ==               \* mutant: a tombstone is taken for work
    IF IsPresent(claims[AuthFor(r)]) THEN "in_progress" ELSE "fresh"
ClaimState(r) == Lookup(claims[AuthFor(r)], job[r].body)

(* A tombstone is a PaymentError, the other two are the claim store's own. *)
ClaimRefusals == [replay      |-> "claim_used",
                  conflict    |-> "claim_conflict",
                  in_progress |-> "claim_in_progress"]

Claim(r) ==
    /\ claims' = [claims EXCEPT ![AuthFor(r)] =
          Reserved(job[r].body, r, now + ReservationTTL, ClaimLimits.hold)]
    /\ pc' = [pc EXCEPT ![r] = "source"]
    /\ UNCHANGED <<results, answer>>

VerifyReturn(r, accepted) ==
    /\ pc[r] = "verify"
    /\ \/ /\ ~accepted
          /\ FailUnclaimed(r, "verify_failed")
       \/ /\ accepted /\ ClaimState(r) # "fresh"
          /\ FailUnclaimed(r, ClaimRefusals[ClaimState(r)])
       \/ /\ accepted /\ ClaimState(r) = "fresh"
          /\ ~HasRoom(claims, ClaimLimits)
          /\ FailUnclaimed(r, "claim_capacity")
       \/ /\ accepted /\ ClaimState(r) = "fresh"
          /\ HasRoom(claims, ClaimLimits)
          /\ Claim(r)
    /\ UNCHANGED <<now, skew, job, wire>>

(* The source resolution returns.  On success the claim is committed as a  *)
(* tombstone before the settlement is submitted; a claim that lapsed while *)
(* the source was resolved fails the request instead.                      *)
FailClaimed(r, ans) ==
    /\ results' = Release(results, job[r].key, job[r].body, r)
    /\ claims' = Release(claims, AuthFor(r), job[r].body, r)
    /\ Finish(r, ans)
    /\ UNCHANGED wire

OwnsClaimUnchecked(r) == TRUE                                   \* mutant
OwnsClaim(r) == Owns(claims[AuthFor(r)], job[r].body, r)

Submit(r) ==
    /\ claims' = Commit(claims, AuthFor(r), job[r].body, r,
                        [by |-> r, ok |-> TRUE, proof |-> None])
    /\ wire' = [wire EXCEPT ![r] = "submitted"]
    /\ pc' = [pc EXCEPT ![r] = "settle"]
    /\ UNCHANGED <<results, answer>>

SourceReturn(r, resolved) ==
    /\ pc[r] = "source"
    /\ \/ ~resolved /\ FailClaimed(r, "source_failed")
       \/ resolved /\ ~OwnsClaim(r) /\ FailClaimed(r, "claim_lost")
       \/ resolved /\ OwnsClaim(r) /\ Submit(r)
    /\ UNCHANGED <<now, skew, job>>

(* External: the facilitator acts on a submitted settlement at any time,   *)
(* also after the handler that submitted it is gone.                       *)
Transfer(r, result) ==
    /\ wire[r] = "submitted"
    /\ wire' = [wire EXCEPT ![r] = result]
    /\ UNCHANGED <<now, skew, results, claims, pc, job, answer>>

(* The facilitator's settle returns: with a receipt for a transfer that    *)
(* executed, with a refusal, or with an error that leaves the outcome      *)
(* unknown.                                                                *)
SettlementAssumed(r, out) ==                \* mutant: trusts any answer
    out = "declined" => wire[r] = "failed"
SettlementKnown(r, out) ==
    /\ out = "served" => wire[r] = "executed"
    /\ out = "declined" => wire[r] = "failed"

(* The result, or the terminal failure, is stored for replay if the key's  *)
(* reservation is still held; no reservation is released.  A result whose  *)
(* body fits but whose body and headers together do not is not stored      *)
(* either: IdempotencyResponseTooLargeError is logged.                     *)
SettleReturn(r, out) ==
    /\ pc[r] = "settle"
    /\ SettlementKnown(r, out)
    /\ \/ results' = Commit(results, job[r].key, job[r].body, r,
                            [by |-> r, ok |-> out = "served",
                             proof |-> job[r].proof])
       \/ out = "served" /\ UNCHANGED results
    /\ Finish(r, out)
    /\ UNCHANGED <<now, skew, claims, job, wire>>

(* Task cancellation at an await: no except clause of the handler runs.    *)
Cancel(r) ==
    /\ Active(r)
    /\ pc' = [pc EXCEPT ![r] = "cancelled"]
    /\ UNCHANGED <<now, skew, results, claims, job, wire, answer>>

(* Time passes for both stores.  A verify call does not outlast            *)
(* VerifyBound; source resolution and settlement may take any time.        *)
Tick ==
    /\ now < MaxTime
    /\ \A r \in Req : pc[r] = "verify" => now < job[r].at + VerifyBound
    /\ now' = now + 1
    /\ results' = Purge(results, now')
    /\ claims' = Purge(claims, now')
    /\ UNCHANGED <<skew, pc, job, wire, answer>>

(* The wall clock is stepped while the monotonic clock is not.             *)
StepClock(d) ==
    /\ skew # d
    /\ skew' = d
    /\ UNCHANGED <<now, results, claims, pc, job, wire, answer>>

Init ==
    /\ now = 0
    /\ skew \in 0..MaxSkew
    /\ results = [k \in Key |-> Absent]
    /\ claims = [a \in Auth |-> Absent]
    /\ pc = [r \in Req |-> "idle"]
    /\ job = [r \in Req |-> NoJob]
    /\ wire = [r \in Req |-> "none"]
    /\ answer = [r \in Req |-> "none"]

Next ==
    \/ \E r \in Req, k \in Key, b \in Body, p \in Proof : Arrive(r, k, b, p)
    \/ \E r \in Req, accepted \in BOOLEAN : VerifyReturn(r, accepted)
    \/ \E r \in Req, resolved \in BOOLEAN : SourceReturn(r, resolved)
    \/ \E r \in Req, out \in {"served", "declined", "unknown"} :
          SettleReturn(r, out)
    \/ \E r \in Req, result \in {"executed", "failed"} : Transfer(r, result)
    \/ \E r \in Req : Cancel(r)
    \/ \E d \in 0..MaxSkew : StepClock(d)
    \/ Tick

Spec == Init /\ [][Next]_vars
-----------------------------------------------------------------------------
Answers == {"none", "conflict", "in_progress", "replayed", "proof_mismatch",
            "rejected", "capacity", "verify_failed", "claim_used",
            "claim_conflict", "claim_in_progress", "claim_capacity",
            "claim_lost", "source_failed", "served", "declined", "unknown"}
Job == [key : Key \cup {None}, body : Body \cup {None},
        proof : Proof \cup {None}, at : Nat, from : Req \cup {None}]
Outcome == [by : Req, ok : BOOLEAN, proof : Proof \cup {None}]
Entry == [state : States, fp : Body \cup {None}, token : Req \cup {None},
          expires : Nat, resp : Outcome \cup {None}, held : Nat]

(* A ledger over S whose completed entries carry a response.               *)
WellFormed(L, S) ==
    /\ L \in [S -> Entry]
    /\ \A k \in S : L[k].state = "complete" => L[k].resp \in Outcome

(* Types of both ledgers, the handlers and the clocks; a handler at work   *)
(* knows its key, body and proof.                                          *)
TypeOK ==
    /\ now \in Nat /\ skew \in 0..MaxSkew
    /\ WellFormed(results, Key) /\ WellFormed(claims, Auth)
    /\ pc \in [Req -> {"idle", "verify", "source", "settle", "done", "cancelled"}]
    /\ job \in [Req -> Job]
    /\ wire \in [Req -> {"none", "submitted", "executed", "failed"}]
    /\ answer \in [Req -> Answers]
    /\ \A r \in Req : (Active(r) \/ job[r].key # None) =>
          job[r].key \in Key /\ job[r].body \in Body /\ job[r].proof \in Proof

(* One signed authorization is sent to settlement at most once, however    *)
(* its wrappers, keys and bodies vary, whichever handlers were cancelled   *)
(* or lapsed in between, and however the wall clock was stepped            *)
(* (docs/HOSTED-API.md: "a second wrapper around the same signed EIP-3009  *)
(* authorization is rejected").                                            *)
AtMostOneSubmission ==
    \A r, s \in Req :
        (Submitted(r) /\ Submitted(s) /\ AuthFor(r) = AuthFor(s)) => r = s

(* The write-ahead tombstone of a submitted authorization stands for as    *)
(* long as a request presenting that authorization could still pass the    *)
(* window check and reach the claim store.                                 *)
TombstoneStands ==
    \A r \in Req :
        (Submitted(r) /\ now < ValidBefore[AuthFor(r)] + VerifyBound) =>
            /\ claims[AuthFor(r)].state = "complete"
            /\ claims[AuthFor(r)].token = r

(* A result is handed out, or stored to be replayed, only against a        *)
(* transfer that was executed for it, although settlements fail, time out  *)
(* and complete after their handler has gone.                              *)
NoFreeResult ==
    /\ \A r \in Req : answer[r] = "served" => wire[r] = "executed"
    /\ \A k \in Key : (results[k].state = "complete" /\ results[k].resp.ok) =>
          wire[results[k].resp.by] = "executed"

(* A replay goes only to a caller who presents the original key, canonical *)
(* request and payment proof (_replay_response, assert_replay_proof).      *)
ReplayBinding ==
    \A r \in Req : answer[r] = "replayed" =>
        LET o == job[r].from IN
        /\ o # None
        /\ job[o].key = job[r].key /\ job[o].body = job[r].body
        /\ job[o].proof = job[r].proof
        /\ Submitted(o)

(* An answer that invites the client to pay or to try again, by a          *)
(* challenge or by Retry-After, is given                                   *)
(*   - by the handler that submitted a transfer, or as a replay of that    *)
(*     answer, only if the transfer is known not to have executed ("a      *)
(*     transport failure leaves the transfer outcome unknown.  Retrying    *)
(*     automatically could repeat the side effect", payments.py);          *)
(*   - once the proof was verified, by the claim store or by a handler     *)
(*     that holds its claim, only if nobody, under any wrapper, key or     *)
(*     call, has submitted that authorization: a verified retry of what    *)
(*     was submitted is refused without an invitation.                     *)
(* What is refused before the claim store (a replay with another proof, a  *)
(* closed window, a failed verify) may carry a challenge although its      *)
(* authorization was spent, and so may Retry-After when the claim lapsed   *)
(* while the source was resolved: the code does not look there.            *)
Behind(r) == IF answer[r] = "replayed" THEN job[r].from ELSE r
InvitationStep ==
    \A r \in Req : (answer'[r] # answer[r] /\ Invites(answer[Behind(r)])') =>
        /\ wire[Behind(r)]' \notin {"submitted", "executed"}
        /\ \/ answer'[r] \in {"claim_in_progress", "claim_capacity"}
           \/ pc[r] = "source" /\ OwnsClaim(r)
           => \A s \in Req : Submitted(s) => AuthFor(s) # AuthFor(r)
InvitationsAreSafe == [][InvitationStep]_vars

(* A handler at work owns its key until ReservationTTL after it arrived,   *)
(* whatever stale handlers of the same key and body commit or abort: two   *)
(* handlers never work for one key unless the older has outlived its       *)
(* reservation.                                                            *)
WorkProtected ==
    \A r \in Req : (Active(r) /\ now < job[r].at + ReservationTTL) =>
        Owns(results[job[r].key], job[r].body, r)

(* A request that fails before settlement leaves no reservation behind, in *)
(* either store; only settlement or cancellation may.                      *)
FailureReleases ==
    \A r \in Req : (pc[r] = "done" /\ ~Submitted(r)) =>
        /\ \A k \in Key : ~(results[k].state = "reserved" /\ results[k].token = r)
        /\ \A a \in Auth : ~(claims[a].state = "reserved" /\ claims[a].token = r)

(* Nothing replaces, alters or drops a stored outcome or a tombstone       *)
(* before its time: not a stale handler's commit or abort, nor a newer     *)
(* request ("Unexpired paid results and authorization claims are never     *)
(* evicted to admit newer work", docs/HOSTED-API.md).                      *)
OutcomeStep ==
    /\ \A k \in Key : (results[k].state = "complete" /\ now' < results[k].expires)
          => results'[k] = results[k]
    /\ \A a \in Auth : (claims[a].state = "complete" /\ now' < claims[a].expires)
          => claims'[a] = claims[a]
OutcomesKept == [][OutcomeStep]_vars
-----------------------------------------------------------------------------
(* The client's and the merchant's view.  What is refused, for whatever    *)
(* reason, is refused; a request whose replay was denied left no trace.    *)
Public(ans) ==
    IF ans \in {"none", "served", "declined", "unknown", "replayed"}
    THEN ans ELSE "refused"

Asked(r) ==
    LET j == IF answer[r] = "proof_mismatch" THEN NoJob ELSE job[r]
    IN  [key |-> j.key, body |-> j.body, proof |-> j.proof, from |-> j.from]

Promise == INSTANCE PaidPromise WITH
    asked <- [r \in Req |-> Asked(r)],
    told <- [r \in Req |-> Public(answer[r])]

(* Two expiring ledgers, two clocks and cancelled handlers amount to the   *)
(* timeless promise: an authorization is spent for good when it is         *)
(* submitted, nobody is refused after that, and what is answered or        *)
(* replayed is what became of the transfer of that very key, request and   *)
(* proof (docs/HOSTED-API.md, "Flow and charging semantics", 5 to 7).      *)
KeepsPromise == Promise!Spec
=============================================================================
