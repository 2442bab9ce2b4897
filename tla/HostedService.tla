--------------------------- MODULE HostedService ----------------------------
(***************************************************************************)
(* The hosted service around the request paths: HostedSettings and         *)
(* HostedRuntime (lucent/hosted.py) turn the environment into a runtime    *)
(* whose parts are present or not; the body guard, the dispatch of         *)
(* POST /v1/preflight and the probes (lucent/api.py) run on that runtime.  *)
(*                                                                         *)
(* What happens inside a path is ApiKeyPreflight and PaidPreflight; here a *)
(* path is admitted and then ends in one step, and expiry, eviction and    *)
(* exhausted quota are choices.  What is kept is which path a request      *)
(* takes, which part of the runtime it touches, which ledger answers it    *)
(* and who is charged.                                                     *)
(***************************************************************************)
EXTENDS Ledger

CONSTANTS
    Req,              \* requests
    Tenant,           \* enabled tenants; a valid X-API-Key is its tenant
    Proof,            \* PAYMENT-SIGNATURE values, one authorization each
    Key,              \* well-formed Idempotency-Key values
    Body, BadBody,    \* request models; those the first pass rejects
    MaxBody,          \* MAX_BODY_BYTES
    MaxChunk          \* bound: the longest http.request message

ASSUME HostedAssumption ==
    /\ BadBody \subseteq Body
    /\ MaxBody \in Nat /\ MaxChunk \in Nat
    /\ None \notin Req \cup Tenant \cup Proof \cup Key \cup Body
    /\ None \notin {"open", "api_key", "x402"}
    /\ "unknown" \notin Tenant

VARIABLES
    runtime,   \* app.state.runtime: its settings and which parts it has
    conn,      \* the transport of each request: its body and its guard
    job,       \* the path it was put on, with its headers
    ledger,    \* the idempotency stores of both paths: slot -> entry
    used,      \* authorizations submitted for settlement
    bill,      \* what each request was charged
    answer     \* what each request was told, and whose outcome that is

vars == <<runtime, conn, job, ledger, used, bill, answer>>
-----------------------------------------------------------------------------
(* The environment, by what the parsers tell apart.  Unset counts as the   *)
(* default, "bad" as whatever a parser refuses.                            *)
Modes == {"disabled", "open", "api_key", "x402", "api_key_or_x402"}
Env == [mode : Modes \cup {"bad"}, source : {"off", "required", "bad"},
        ttl : {"ok", "bad"},
        tenants : {"none", "some", "duplicate", "bad"},
        x402 : {"off", "on", "bad"}, terms : {"ok", "bad"}]

UsesApiKeys(mode) == mode \in {"api_key", "api_key_or_x402"}
UsesX402Alone(mode) == mode = "x402"                             \* mutant
UsesX402(mode) == mode \in {"x402", "api_key_or_x402"}

(* PaymentConfig.from_env(): the terms are read only when x402 is on.      *)
PaymentParses(e) == e.x402 = "off" \/ (e.x402 = "on" /\ e.terms = "ok")
Parses(e) ==
    /\ "bad" \notin {e.mode, e.source, e.ttl, e.tenants}
    /\ PaymentParses(e)

(* HostedSettings.from_env(): the parts of the configuration agree.        *)
AcceptsAnySale(e) ==               \* mutant: sells what nobody verified
    /\ Parses(e)
    /\ UsesApiKeys(e.mode) <=> e.tenants # "none"
    /\ UsesX402(e.mode) <=> e.x402 = "on"
    /\ e.source = "required" => e.mode \notin {"disabled", "open"}
Accepts(e) ==
    /\ Parses(e)
    /\ UsesApiKeys(e.mode) <=> e.tenants # "none"
    /\ UsesX402(e.mode) <=> e.x402 = "on"
    /\ UsesX402(e.mode) => e.source = "required"
    /\ e.source = "required" => e.mode \notin {"disabled", "open"}

(* _runtime_identity(), of the deployment's two ids and its platform.      *)
Identity(commit, release, railway) ==
    CASE commit = "full" /\ release = "full" -> "verified"
      [] commit = "unset" /\ release = "unset" /\ ~railway -> "local"
      [] OTHER -> "invalid"

(* HostedRuntime.from_env(): the parts that the settings call for.  That   *)
(* tenants and their keys differ is noticed only when the authenticator is *)
(* built.                                                                  *)
AccessBuilds(e) == UsesApiKeys(e.mode) => e.tenants = "some"
Parts(e) ==
    (IF UsesApiKeys(e.mode) THEN {"access"} ELSE {})
    \cup (IF UsesX402(e.mode) THEN {"payments", "results", "claims"} ELSE {})
    \cup (IF e.source = "required" THEN {"sources"} ELSE {})
Down(state) == [mode |-> state, parts |-> {}, ready |-> "unavailable"]

(* GET /ready.  Its answer is settled by the environment.                  *)
Ready(mode, identity) ==
    CASE identity = "invalid" -> "unavailable"
      [] identity # "invalid" /\ mode = "disabled" -> "not_configured"
      [] OTHER -> "ready"

Boot(e, identity) ==
    /\ runtime.mode = "down"
    /\ runtime' = IF Accepts(e) /\ AccessBuilds(e)
                  THEN [mode |-> e.mode, parts |-> Parts(e),
                        ready |-> Ready(e.mode, identity)]
                  ELSE Down("refused")
    /\ UNCHANGED <<conn, job, ledger, used, bill, answer>>

Has(part) == part \in runtime.parts
Serving == runtime.mode \in Modes
-----------------------------------------------------------------------------
(* MaxBodySizeMiddleware.  A Content-Length that is missing or no number   *)
(* decides nothing; then the messages are counted until the body ends, is  *)
(* too long or the client is gone.  The application is given the messages  *)
(* again, the disconnection included.                                      *)
NoConn == [pc |-> "idle", declared |-> 0, got |-> 0, cut |-> FALSE]
NoHead == [api |-> None, sig |-> None, key |-> None, body |-> None]
NoJob == [head |-> NoHead, path |-> None, verified |-> FALSE]
Unparsed == {"not_json", "not_valid", "not_encodable"}
Headers == [api : Tenant \cup {None, "unknown"}, sig : Proof \cup {None},
         key : Key \cup {None}, body : Body \cup Unparsed]

Say(r, code, from) == answer' = [answer EXCEPT ![r] = [code |-> code, from |-> from]]
End(r, code) ==
    /\ conn' = [conn EXCEPT ![r].pc = "done"]
    /\ Say(r, code, None)

Request(r, declared) ==
    /\ Serving /\ conn[r].pc = "idle"
    /\ \/ /\ declared > MaxBody
          /\ conn' = [conn EXCEPT ![r].pc = "done", ![r].declared = declared]
          /\ Say(r, "too_large", None)
       \/ /\ declared <= MaxBody
          /\ conn' = [conn EXCEPT ![r].pc = "body"]
          /\ UNCHANGED answer
    /\ UNCHANGED <<runtime, job, ledger, used, bill>>

CountedLast(r, n) == n                        \* mutant: this message only
Counted(r, n) == conn[r].got + n
Receive(r, n, more) ==
    /\ conn[r].pc = "body"
    /\ \/ /\ Counted(r, n) > MaxBody
          /\ conn' = [conn EXCEPT ![r].pc = "done", ![r].got = @ + n]
          /\ Say(r, "too_large", None)
       \/ /\ Counted(r, n) <= MaxBody
          /\ conn' = [conn EXCEPT ![r].got = @ + n,
                                  ![r].pc = IF more THEN "body" ELSE "parse"]
          /\ UNCHANGED answer
    /\ UNCHANGED <<runtime, job, ledger, used, bill>>

Disconnect(r) ==
    /\ conn[r].pc = "body"
    /\ conn' = [conn EXCEPT ![r].pc = "parse", ![r].cut = TRUE]
    /\ UNCHANGED <<runtime, job, ledger, used, bill, answer>>
-----------------------------------------------------------------------------
(* transaction_preflight() up to its first await.  Each store has its own  *)
(* slots: the access controller's by tenant, the payment one under "x402". *)
H(r) == job[r].head
Slot == {<<"access", t, k>> : t \in Tenant, k \in Key}
        \cup {<<"payment", "x402", k>> : k \in Key}
SlotUnscoped(path, h) == <<"payment", "x402", h.key>>            \* mutant
SlotOf(path, h) ==
    IF path = "api_key" THEN <<"access", h.api, h.key>>
                        ELSE <<"payment", "x402", h.key>>
Mine(r) == SlotOf(job[r].path, H(r))
Holds(r) == job[r].path # "open" /\ Owns(ledger[Mine(r)], H(r).body, r)

Put(r, path, h) == job' = [job EXCEPT ![r].path = path, ![r].head = h]
Stay == UNCHANGED <<job, ledger, used, bill>>

(* A body that was cut short, is empty, not JSON or not a request, and one *)
(* that has no canonical encoding, never reach the access checks.          *)
Unreadable(r, h) ==
    /\ \/ conn[r].cut /\ End(r, "malformed")
       \/ /\ ~conn[r].cut
          /\ \/ conn[r].got = 0 /\ End(r, "invalid")
             \/ conn[r].got > 0 /\ h.body = "not_json" /\ End(r, "malformed")
             \/ /\ conn[r].got > 0 /\ h.body \in {"not_valid", "not_encodable"}
                /\ End(r, "invalid")
    /\ Stay

Readable(r, h) == ~conn[r].cut /\ conn[r].got > 0 /\ h.body \notin Unparsed

NotConfigured(r) ==
    /\ runtime.mode = "disabled"
    /\ End(r, "not_configured")
    /\ Stay

Free(r, h) ==
    /\ runtime.mode = "open"
    /\ Put(r, "open", [NoHead EXCEPT !.body = h.body])
    /\ conn' = [conn EXCEPT ![r].pc = "work"]
    /\ UNCHANGED <<ledger, used, bill, answer>>

(* reserve() on the path's store, and _replay_response() of a stored       *)
(* outcome.  A paid outcome is replayed to its own proof only.             *)
Replayable(path, h, e) == path = "api_key" \/ H(e.resp).sig = h.sig
Reserve(r, path, h) ==
    LET s == SlotOf(path, h)
        found == IF h.key = None THEN "invalid_key" ELSE Lookup(ledger[s], h.body)
    IN
    \/ /\ found \in {"invalid_key", "conflict", "in_progress"}
       /\ End(r, found)
       /\ UNCHANGED ledger
    \/ /\ found = "replay" /\ ~Replayable(path, h, ledger[s])
       /\ End(r, "proof_mismatch")
       /\ UNCHANGED ledger
    \/ /\ found = "replay" /\ Replayable(path, h, ledger[s])
       /\ conn' = [conn EXCEPT ![r].pc = "done"]
       /\ Say(r, "replayed", ledger[s].resp)
       /\ UNCHANGED ledger
    \/ /\ found = "fresh"
       /\ End(r, "capacity")
       /\ UNCHANGED ledger
    \/ /\ found = "fresh"
       /\ ledger' = [ledger EXCEPT ![s] = Reserved(h.body, r, 0, 0)]
       /\ conn' = [conn EXCEPT ![r].pc = "work"]
       /\ UNCHANGED answer

(* A presented API key decides, even a wrong one beside a payment.         *)
ByApiKey(h) == h.api # None /\ UsesApiKeys(runtime.mode)
AssertFails(r) == End(r, "assertion") /\ Stay

OnApiKey(r, h) ==
    /\ ByApiKey(h)
    /\ \/ ~Has("access") /\ AssertFails(r)
       \/ Has("access") /\ h.api \notin Tenant /\ End(r, "unauthorized") /\ Stay
       \/ Has("access") /\ h.api \in Tenant /\ End(r, "quota") /\ Stay
       \/ /\ Has("access") /\ h.api \in Tenant
          /\ bill' = [bill EXCEPT ![r].quota = @ + 1]
          /\ Put(r, "api_key", [h EXCEPT !.sig = None])
          /\ Reserve(r, "api_key", h)
          /\ UNCHANGED used

NoApiKey(r, h) ==
    /\ ~ByApiKey(h) /\ runtime.mode = "api_key"
    /\ End(r, IF Has("access") THEN "unauthorized" ELSE "assertion")
    /\ Stay

(* It asks for payment, or for a key where none is sold.                   *)
PaymentRequired(r) ==
    /\ End(r, IF Has("payments") THEN "payment_required" ELSE "unauthorized")
    /\ Stay

OnPayment(r, h) ==
    /\ ~ByApiKey(h) /\ runtime.mode \notin {"disabled", "open", "api_key"}
    /\ \/ h.sig = None /\ PaymentRequired(r)
       \/ h.sig # None /\ ~Has("results") /\ AssertFails(r)
       \/ /\ h.sig # None /\ Has("results")
          /\ Put(r, "x402", [h EXCEPT !.api = None])
          /\ Reserve(r, "x402", h)
          /\ UNCHANGED <<used, bill>>

Enter(r, h) ==
    /\ conn[r].pc = "parse"
    /\ \/ Unreadable(r, h)
       \/ /\ Readable(r, h)
          /\ \/ NotConfigured(r)
             \/ Free(r, h)
             \/ OnApiKey(r, h)
             \/ NoApiKey(r, h)
             \/ OnPayment(r, h)
    /\ UNCHANGED <<runtime>>
-----------------------------------------------------------------------------
(* The rest of the handler.  Anything may fail before a settlement is      *)
(* submitted, and then the reservation is released; a call that the first  *)
(* pass rejects and an authorization already claimed always do.            *)
Paid(r) == job[r].path = "x402"
Working(r) == conn[r].pc = "work"
Able(r) ==
    /\ H(r).body \notin BadBody
    /\ Paid(r) => Has("payments") /\ Has("claims") /\ H(r).sig \notin used

Fail(r) ==
    /\ Working(r)
    /\ IF Paid(r) /\ H(r).body \notin BadBody /\ ~(Has("payments") /\ Has("claims"))
       THEN End(r, "assertion") ELSE End(r, "failed")
    /\ ledger' = IF Holds(r) THEN [ledger EXCEPT ![Mine(r)] = Absent] ELSE ledger
    /\ UNCHANGED <<runtime, job, used, bill>>

Commit(r) ==
    IF Holds(r) THEN [ledger EXCEPT ![Mine(r)] = Completed(@, r, 0)] ELSE ledger

(* The result is bound to verified source where the runtime has the cache. *)
Bound(r) == job' = [job EXCEPT ![r].verified = Has("sources")]
Serve(r) ==
    /\ Working(r) /\ Able(r) /\ ~Paid(r)
    /\ Bound(r)
    /\ End(r, "served")
    /\ \/ ledger' = Commit(r)
       \/ Holds(r) /\ ledger' = [ledger EXCEPT ![Mine(r)] = Absent]
    /\ UNCHANGED <<runtime, used, bill>>

(* The settlement is submitted once the claim is written, and its outcome, *)
(* good or bad, is stored.  A settlement that is confirmed moved the       *)
(* money; one that failed, timed out or was answered with nonsense may     *)
(* have moved it too, and settle() cannot know.                            *)
Settle(r, ok, paid) ==
    /\ Working(r) /\ Able(r) /\ Paid(r)
    /\ Bound(r)
    /\ used' = used \cup {H(r).sig}
    /\ ok => paid
    /\ bill' = IF paid THEN [bill EXCEPT ![r].settled = @ + 1] ELSE bill
    /\ End(r, IF ok THEN "served" ELSE "payment_failed")
    /\ ledger' = Commit(r)
    /\ UNCHANGED <<runtime>>

(* The task is cancelled at an await; if the settlement was submitted it   *)
(* may go through.  Nothing is released.                                   *)
Cancel(r, submitted, paid) ==
    /\ Working(r)
    /\ submitted => Paid(r) /\ Able(r)
    /\ paid => submitted
    /\ conn' = [conn EXCEPT ![r].pc = "cancelled"]
    /\ used' = IF submitted THEN used \cup {H(r).sig} ELSE used
    /\ bill' = IF paid THEN [bill EXCEPT ![r].settled = @ + 1] ELSE bill
    /\ UNCHANGED <<runtime, job, ledger, answer>>

(* An entry expires or, in the access store, makes way for another.        *)
Expire(s) ==
    /\ IsPresent(ledger[s])
    /\ ledger' = [ledger EXCEPT ![s] = Absent]
    /\ UNCHANGED <<runtime, conn, job, used, bill, answer>>

Finished ==
    /\ runtime.mode = "refused" \/ \A r \in Req : conn[r].pc \in {"done", "cancelled"}
    /\ UNCHANGED vars

Init ==
    /\ runtime = Down("down")
    /\ conn = [r \in Req |-> NoConn]
    /\ job = [r \in Req |-> NoJob]
    /\ ledger = [s \in Slot |-> Absent]
    /\ used = {}
    /\ bill = [r \in Req |-> [quota |-> 0, settled |-> 0]]
    /\ answer = [r \in Req |-> [code |-> "none", from |-> None]]

Ids == {"unset", "full", "bad"}
Next ==
    \/ \E e \in Env, commit \in Ids, release \in Ids, railway \in BOOLEAN :
          Boot(e, Identity(commit, release, railway))
    \/ \E r \in Req, declared \in 0..MaxBody + 1 : Request(r, declared)
    \/ \E r \in Req, n \in 0..MaxChunk, more \in BOOLEAN : Receive(r, n, more)
    \/ \E r \in Req : Disconnect(r)
    \/ \E r \in Req, h \in Headers : Enter(r, h)
    \/ \E r \in Req : Fail(r)
    \/ \E r \in Req : Serve(r)
    \/ \E r \in Req, ok \in BOOLEAN, paid \in BOOLEAN : Settle(r, ok, paid)
    \/ \E r \in Req, submitted \in BOOLEAN, paid \in BOOLEAN : Cancel(r, submitted, paid)
    \/ \E s \in Slot : Expire(s)
    \/ Finished

Spec == Init /\ [][Next]_vars
-----------------------------------------------------------------------------
Entry ==
    [state : States, fp : Body \cup {None}, token : Req \cup {None},
     expires : {0}, resp : Req \cup {None}, held : {0}]
Codes == {"none", "assertion", "too_large", "malformed", "invalid",
          "not_configured", "unauthorized", "quota", "invalid_key",
          "conflict", "in_progress", "capacity", "replayed",
          "proof_mismatch", "payment_required", "failed", "payment_failed",
          "served"}

(* Types of the runtime, the connections and the ledgers.                  *)
TypeOK ==
    /\ runtime \in [mode : Modes \cup {"down", "refused"},
                    parts : SUBSET {"access", "payments", "results", "claims",
                                    "sources"},
                    ready : {"unavailable", "not_configured", "ready"}]
    /\ conn \in [Req -> [pc : {"idle", "body", "parse", "work", "done", "cancelled"},
                         declared : 0..MaxBody + 1, got : Nat, cut : BOOLEAN]]
    /\ job \in [Req -> [head : Headers \cup {NoHead},
                        path : {None, "open", "api_key", "x402"}, verified : BOOLEAN]]
    /\ ledger \in [Slot -> Entry]
    /\ used \subseteq Proof
    /\ bill \in [Req -> [quota : Nat, settled : Nat]]
    /\ answer \in [Req -> [code : Codes, from : Req \cup {None}]]

(* Every configuration that the settings accept builds all the parts that  *)
(* the handler asserts are there, whatever headers a request combines, and *)
(* a process that /ready admits traffic to never turns a request away as   *)
(* not configured.                                                         *)
ConfigurationServes ==
    \A r \in Req :
        /\ answer[r].code # "assertion"
        /\ runtime.ready = "ready" => answer[r].code # "not_configured"

(* Outside open mode a verdict is paid for, once and one way: by the       *)
(* tenant's quota or by a settlement, never by both, and a sold verdict is *)
(* bound to verified source.  A replay is the outcome of a request of the  *)
(* same path, tenant or proof, key and call that was itself answered.      *)
(* Money moves at most once for a request, and never for one that was told *)
(* anything but a verdict or that its payment failed: the outcome of a     *)
(* failed settlement is unknown, and it is not submitted again.            *)
Charged(r) == bill[r].quota + bill[r].settled
SameOrigin(r, o) ==
    /\ job[o].path = job[r].path
    /\ H(o).key = H(r).key /\ H(o).body = H(r).body
    /\ IF Paid(r) THEN H(o).sig = H(r).sig ELSE H(o).api = H(r).api
Earned(r) ==
    /\ answer[r].code = "served" =>
          /\ Charged(r) = (IF runtime.mode = "open" THEN 0 ELSE 1)
          /\ Paid(r) => bill[r].settled = 1 /\ job[r].verified
    /\ answer[r].code = "replayed" =>
          /\ answer[r].from \in Req \ {r}
          /\ SameOrigin(r, answer[r].from)
          /\ answer[answer[r].from].code \in {"served", "payment_failed"}
    /\ answer[r].code \notin {"none", "served", "payment_failed"} =>
          bill[r].settled = 0
VerdictsAreEarned == \A r \in Req : Charged(r) <= 1 /\ Earned(r)

(* The handler only ever works on a body that arrived whole and within the *)
(* limit, however it was cut into messages and whatever length the client  *)
(* declared; and 413 is for bodies that are, or claim to be, too long.     *)
BodyWhole ==
    \A r \in Req :
        /\ job[r].path # None => ~conn[r].cut
        /\ conn[r].pc \in {"parse", "work", "cancelled"} \/ job[r].path # None =>
              conn[r].got <= MaxBody
        /\ answer[r].code = "too_large" =>
              conn[r].got > MaxBody \/ conn[r].declared > MaxBody
=============================================================================
