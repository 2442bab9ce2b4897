-------------------------- MODULE PeripheryProofs ---------------------------
(***************************************************************************)
(* The parts around the request paths and their stores: the token bucket,  *)
(* the hosted service, the descriptor watch and the MCP server.  They do   *)
(* not interact and share no variable, so each is proved on its own.       *)
(***************************************************************************)
EXTENDS TokenBucket, HostedService, Watch, McpServer, SequenceTheorems, TLAPS

(* TokenBucket.                                                            *)
(* What a refill and a clock reading give, from a bucket in range.         *)
LEMMA RefillRange ==
    ASSUME BucketTypeOK,
           NEW t \in Tenants, NEW reading \in Nat
    PROVE  /\ Refilled(t, reading) \in Int
           /\ 0 <= Refilled(t, reading)
           /\ Refilled(t, reading) <= Capacity[t]
           /\ Latest(t, reading) \in Nat
           /\ last[t] # None => last[t] <= Latest(t, reading)
  <1>1. /\ Capacity[t] \in Nat /\ Rate[t] \in Nat /\ tokens[t] \in Int
        /\ 0 <= tokens[t] /\ tokens[t] <= Capacity[t]
    BY BucketAssumption DEF BucketTypeOK
  <1>2. CASE last[t] = None
    BY <1>1, <1>2 DEF Refilled, Latest
  <1>3. CASE last[t] # None
    <2>1. last[t] \in Nat
      BY <1>3 DEF BucketTypeOK
    <2>2. Greater(0, reading - last[t]) \in Nat
      BY <2>1 DEF Greater
    <2>3. Greater(0, reading - last[t]) * Rate[t] \in Nat
      BY <1>1, <2>2
    <2>4. QED
      BY <1>1, <1>3, <2>1, <2>3 DEF Refilled, Latest, Lesser, Greater
  <1>4. QED
    BY <1>2, <1>3

(* The grains a refill adds are those of the time by which it moves        *)
(* last_refill.                                                            *)
LEMMA RefillGain ==
    ASSUME BucketTypeOK,
           NEW t \in Tenants, NEW reading \in Nat, last[t] # None
    PROVE  LET gain == Rate[t] * (Latest(t, reading) - last[t]) IN
           /\ gain \in Nat
           /\ Refilled(t, reading) = Lesser(Capacity[t], tokens[t] + gain)
  <1>1. last[t] \in Nat /\ Rate[t] \in Nat /\ tokens[t] \in Int
    BY BucketAssumption DEF BucketTypeOK
  <1>2. Latest(t, reading) - last[t] = Greater(0, reading - last[t])
    BY <1>1 DEF Latest, Greater
  <1>3. Greater(0, reading - last[t]) \in Nat
    BY <1>1 DEF Greater
  <1>4. DEFINE e == Greater(0, reading - last[t])
  <1>5. e * Rate[t] = Rate[t] * e /\ Rate[t] * e \in Nat
    BY <1>1, <1>3
  <1>6. QED
    BY <1>2, <1>5 DEF Refilled

(* Rounding up never advertises too little time.                           *)
LEMMA RetryAfterCovers ==
    ASSUME NEW m \in Nat, NEW c \in Nat \ {0}
    PROVE  RetryAfter(m, c) \in Nat /\ m <= c * RetryAfter(m, c)
  <1>1. DEFINE q == (m + c - 1) \div c
  <1>2. q \in Int /\ c * q <= m + c - 1 /\ m + c - 1 < c * q + c
    OBVIOUS
  <1>3. q >= 0
    <2>1. SUFFICES ASSUME q < 0 PROVE FALSE
      BY <1>2
    <2>2. c * q + c <= 0
      BY <1>2, <2>1
    <2>3. QED
      BY <1>2, <2>2
  <1>4. m <= c * q
    BY <1>2
  <1>5. CASE q >= 1
    BY <1>2, <1>4, <1>5 DEF RetryAfter, Greater
  <1>6. CASE q < 1
    <2>1. q = 0
      BY <1>2, <1>3, <1>6
    <2>2. m = 0
      BY <1>4, <2>1
    <2>3. QED
      BY <1>2, <2>1, <2>2 DEF RetryAfter, Greater
  <1>7. QED
    BY <1>2, <1>5, <1>6
-----------------------------------------------------------------------------
(* The bucket's numbers stay in range: no sequence of clock readings makes *)
(* it negative or lifts it above the capacity.                             *)
THEOREM BucketTypeCorrect ==
  BucketSpec => []BucketTypeOK
  <1>1. BucketInit => BucketTypeOK
    BY BucketAssumption DEF BucketInit, BucketTypeOK
  <1>2. BucketTypeOK /\ [BucketNext]_bucketVars => BucketTypeOK'
    <2>1. SUFFICES ASSUME BucketTypeOK, [BucketNext]_bucketVars PROVE BucketTypeOK'
      OBVIOUS
    <2>2. ASSUME NEW t \in Tenants, NEW cost \in Costs,
                 NEW reading \in 0..MaxTime, Consume(t, cost, reading)
          PROVE  BucketTypeOK'
      <3>1. reading \in Nat /\ cost \in Nat
        BY BucketAssumption
      <3>2. /\ Refilled(t, reading) \in Int /\ 0 <= Refilled(t, reading)
            /\ Refilled(t, reading) <= Capacity[t]
            /\ Latest(t, reading) \in Nat
            /\ last[t] # None => last[t] <= Latest(t, reading)
        BY <2>1, <3>1, RefillRange
      <3>3. last' \in [Tenants -> Nat \cup {None}] /\ last'[t] = Latest(t, reading)
        BY <2>1, <2>2, <3>2 DEF Consume, BucketTypeOK
      <3>4. since' \in [Tenants -> Nat] /\ since'[t] <= last'[t]
        BY <2>1, <2>2, <3>1, <3>2, <3>3, BucketAssumption DEF Consume, BucketTypeOK, WindowStart, Latest
      <3>5. /\ \A u \in Tenants : last'[u] # None => since'[u] <= last'[u]
            /\ \A u \in Tenants : last'[u] = None =>
                                    spent'[u] = 0 /\ promise'[u] = None
        <4>1. \A u \in Tenants \ {t} :
                /\ last'[u] = last[u] /\ since'[u] = since[u]
                /\ spent'[u] = spent[u] /\ promise'[u] = promise[u]
          BY <2>1, <2>2 DEF Consume, Admit, Refuse, BucketTypeOK
        <4>2. last'[t] # None
          BY <3>2, <3>3, BucketAssumption
        <4>3. QED
          BY <2>1, <3>4, <4>1, <4>2 DEF BucketTypeOK
      <3>6. CASE Admit(t, cost, reading)
        <4>1. /\ tokens' \in [Tenants -> Int]
              /\ \A u \in Tenants : 0 <= tokens'[u] /\ tokens'[u] <= Capacity[u]
          <5>1. /\ tokens' = [tokens EXCEPT ![t] = Refilled(t, reading) - cost]
                /\ Refilled(t, reading) - cost \in Int
                /\ 0 <= Refilled(t, reading) - cost
                /\ Refilled(t, reading) - cost <= Capacity[t]
            <6>1. Capacity[t] \in Nat
              BY BucketAssumption
            <6>2. QED
              BY <3>1, <3>2, <3>6, <6>1 DEF Admit
          <5>2. QED
            BY <2>1, <5>1 DEF BucketTypeOK
        <4>2. /\ spent' \in [Tenants -> Nat]
              /\ promise' \in [Tenants -> [cost : Nat, from : Nat] \cup {None}]
          BY <2>1, <3>1, <3>6 DEF Admit, BucketTypeOK
        <4>3. QED
          BY <3>3, <3>4, <3>5, <4>1, <4>2 DEF BucketTypeOK
      <3>7. CASE Refuse(t, cost, reading)
        <4>1. /\ tokens' \in [Tenants -> Int]
              /\ \A u \in Tenants : 0 <= tokens'[u] /\ tokens'[u] <= Capacity[u]
          BY <2>1, <3>2, <3>7 DEF Refuse, BucketTypeOK
        <4>2. reading + RetryAfter(cost - Refilled(t, reading), Rate[t]) \in Nat
          <5>1. Rate[t] \in Nat \ {0} /\ cost - Refilled(t, reading) \in Nat
            BY <3>1, <3>2, <3>7, BucketAssumption DEF Refuse
          <5>2. PICK m \in Nat : m = cost - Refilled(t, reading)
            BY <5>1
          <5>3. RetryAfter(m, Rate[t]) \in Nat
            BY <5>1, RetryAfterCovers
          <5>4. QED
            BY <3>1, <5>2, <5>3
        <4>3. /\ spent' \in [Tenants -> Nat]
              /\ promise' \in [Tenants -> [cost : Nat, from : Nat] \cup {None}]
          <5>1. CASE promise[t] # None \/ ClockBehind(t, reading)
            BY <2>1, <3>7, <5>1 DEF Refuse, BucketTypeOK
          <5>2. CASE ~(promise[t] # None \/ ClockBehind(t, reading))
            BY <2>1, <3>1, <3>7, <4>2, <5>2 DEF Refuse, BucketTypeOK
          <5>3. QED
            BY <5>1, <5>2
        <4>4. QED
          BY <3>3, <3>4, <3>5, <4>1, <4>3 DEF BucketTypeOK
      <3>8. QED
        BY <2>2, <3>6, <3>7 DEF Consume
    <2>3. ASSUME NEW t \in Tenants, OpenWindow(t)
          PROVE  BucketTypeOK'
      BY <2>1, <2>3 DEF OpenWindow, BucketTypeOK
    <2>4. CASE UNCHANGED bucketVars
      BY <2>1, <2>4 DEF bucketVars, BucketTypeOK
    <2>5. QED
      BY <2>1, <2>2, <2>3, <2>4 DEF BucketNext
  <1>3. QED
    BY <1>1, <1>2, PTL DEF BucketSpec

(* The rate limit holds in every window, whatever the clock does.          *)
THEOREM BucketAdmissionBounded ==
  BucketSpec => []AdmissionBound
  <1>1. BucketInit => AdmissionBound
    BY DEF BucketInit, AdmissionBound
  <1>2. BucketTypeOK /\ BucketTypeOK' /\ AdmissionBound /\ [BucketNext]_bucketVars => AdmissionBound'
    <2>1. SUFFICES ASSUME BucketTypeOK, BucketTypeOK', AdmissionBound, [BucketNext]_bucketVars
                   PROVE  AdmissionBound'
      OBVIOUS
    <2>2. ASSUME NEW t \in Tenants, NEW cost \in Costs,
                 NEW reading \in 0..MaxTime, Consume(t, cost, reading)
          PROVE  AdmissionBound'
      <3>1. /\ reading \in Nat /\ cost \in Nat
            /\ Capacity[t] \in Nat /\ Rate[t] \in Nat
            /\ tokens[t] \in Int /\ spent[t] \in Nat /\ since[t] \in Nat
        BY <2>1, BucketAssumption DEF BucketTypeOK
      <3>2. last' = [last EXCEPT ![t] = Latest(t, reading)]
            /\ since' = [since EXCEPT ![t] = WindowStart(t, reading)]
        BY <2>2 DEF Consume
      <3>3. spent'[t] + tokens'[t] = spent[t] + Refilled(t, reading)
        <4>1. Refilled(t, reading) \in Int
          BY <2>1, <3>1, RefillRange
        <4>2. QED
          BY <2>1, <2>2, <3>1, <4>1 DEF Consume, Admit, Refuse, BucketTypeOK
      <3>4. \A u \in Tenants \ {t} : /\ spent'[u] = spent[u] /\ tokens'[u] = tokens[u]
                                     /\ last'[u] = last[u] /\ since'[u] = since[u]
        BY <2>1, <2>2 DEF Consume, Admit, Refuse, BucketTypeOK
      <3>5. last'[t] = Latest(t, reading) /\ since'[t] = WindowStart(t, reading)
        BY <2>1, <3>2 DEF BucketTypeOK
      <3>6. spent'[t] + tokens'[t]
              <= Capacity[t] + Rate[t] * (last'[t] - since'[t])
        <4>1. CASE last[t] = None
          <5>1. last'[t] - since'[t] = 0
            BY <3>1, <3>5, <4>1 DEF Latest, WindowStart
          <5>2. Refilled(t, reading) = Capacity[t]
            BY <4>1 DEF Refilled
          <5>3. spent[t] = 0
            BY <2>1, <4>1 DEF BucketTypeOK
          <5>4. QED
            BY <3>1, <3>3, <5>1, <5>2, <5>3
        <4>2. CASE last[t] # None
          <5>1. DEFINE gain == Rate[t] * (Latest(t, reading) - last[t])
          <5>2. gain \in Nat
                /\ Refilled(t, reading) = Lesser(Capacity[t], tokens[t] + gain)
            BY <2>1, <3>1, <4>2, RefillGain
          <5>3. Refilled(t, reading) <= tokens[t] + gain
            BY <3>1, <5>2 DEF Lesser
          <5>4. spent[t] + tokens[t]
                  <= Capacity[t] + Rate[t] * (last[t] - since[t])
            BY <2>1, <4>2 DEF AdmissionBound
          <5>5. last[t] \in Nat /\ Latest(t, reading) \in Nat
            BY <2>1, <3>1, <4>2, RefillRange DEF BucketTypeOK
          <5>6. Rate[t] * (Latest(t, reading) - since[t])
                  = Rate[t] * (last[t] - since[t]) + gain
            BY <3>1, <5>5
          <5>7. Refilled(t, reading) \in Int
            BY <2>1, <3>1, RefillRange
          <5>8. since'[t] = since[t]
            BY <3>5, <4>2 DEF WindowStart
          <5>9. QED
            BY <3>1, <3>3, <3>5, <5>2, <5>3, <5>4, <5>5, <5>6, <5>7, <5>8
        <4>3. QED
          BY <4>1, <4>2
      <3>7. QED
        BY <2>1, <3>4, <3>6 DEF AdmissionBound
    <2>3. ASSUME NEW t \in Tenants, OpenWindow(t)
          PROVE  AdmissionBound'
      <3>1. /\ last'[t] - since'[t] = 0 /\ spent'[t] = 0
            /\ tokens'[t] <= Capacity[t] /\ tokens'[t] \in Int
        BY <2>1, <2>3 DEF OpenWindow, BucketTypeOK
      <3>2. Capacity[t] \in Nat /\ Rate[t] \in Nat
        BY BucketAssumption
      <3>3. spent'[t] + tokens'[t]
              <= Capacity[t] + Rate[t] * (last'[t] - since'[t])
        BY <3>1, <3>2
      <3>4. \A u \in Tenants \ {t} : /\ spent'[u] = spent[u] /\ tokens'[u] = tokens[u]
                                     /\ last'[u] = last[u] /\ since'[u] = since[u]
        BY <2>1, <2>3 DEF OpenWindow, BucketTypeOK
      <3>5. QED
        BY <2>1, <3>3, <3>4 DEF AdmissionBound
    <2>4. CASE UNCHANGED bucketVars
      BY <2>1, <2>4 DEF bucketVars, AdmissionBound
    <2>5. QED
      BY <2>1, <2>2, <2>3, <2>4 DEF BucketNext
  <1>3. QED
    BY <1>1, <1>2, BucketTypeCorrect, PTL DEF BucketSpec

(* Waiting for Retry-After is enough, for every capacity and rate.         *)
THEOREM BucketRetryHonoured ==
  BucketSpec => []RetrySuffices
  <1>1. BucketInit => RetrySuffices
    BY DEF BucketInit, RetrySuffices
  <1>2. BucketTypeOK /\ BucketTypeOK' /\ RetrySuffices /\ [BucketNext]_bucketVars => RetrySuffices'
    <2>1. SUFFICES ASSUME BucketTypeOK, BucketTypeOK', RetrySuffices, [BucketNext]_bucketVars
                   PROVE  RetrySuffices'
      OBVIOUS
    <2>2. ASSUME NEW t \in Tenants, NEW cost \in Costs,
                 NEW reading \in 0..MaxTime, Consume(t, cost, reading)
          PROVE  RetrySuffices'
      <3>1. /\ reading \in Nat /\ cost \in Nat /\ cost <= Capacity[t]
            /\ Capacity[t] \in Nat /\ Rate[t] \in Nat \ {0}
            /\ tokens[t] \in Int
        <4>1. cost <= Capacity[t]
          BY <2>2 DEF Consume
        <4>2. QED
          BY <2>1, <4>1, BucketAssumption DEF BucketTypeOK
      <3>2. /\ Refilled(t, reading) \in Int
            /\ Refilled(t, reading) <= Capacity[t]
            /\ Latest(t, reading) \in Nat
        BY <2>1, <3>1, RefillRange
      <3>3. last'[t] = Latest(t, reading)
        BY <2>1, <2>2 DEF Consume, BucketTypeOK
      <3>4. \A u \in Tenants \ {t} : /\ promise'[u] = promise[u]
                                     /\ tokens'[u] = tokens[u]
                                     /\ last'[u] = last[u]
        BY <2>1, <2>2 DEF Consume, Admit, Refuse, BucketTypeOK
      <3>5. promise'[t] # None =>
              /\ promise'[t].cost <= Capacity[t]
              /\ promise'[t].cost <= tokens'[t]
                   + Rate[t] * Greater(0, promise'[t].from - last'[t])
        <4>1. CASE Admit(t, cost, reading)
          BY <2>1, <4>1 DEF Admit, BucketTypeOK
        <4>2. CASE /\ Refuse(t, cost, reading) /\ promise[t] = None
                   /\ ~ClockBehind(t, reading)
          <5>1. DEFINE wait == RetryAfter(cost - Refilled(t, reading), Rate[t])
          <5>2. cost - Refilled(t, reading) \in Nat
            BY <3>1, <3>2, <4>2 DEF Refuse
          <5>3. /\ wait \in Nat
                /\ cost - Refilled(t, reading) <= Rate[t] * wait
            BY <3>1, <5>2, RetryAfterCovers
          <5>4. /\ promise'[t] = [cost |-> cost, from |-> reading + wait]
                /\ tokens'[t] = Refilled(t, reading)
            BY <2>1, <4>2 DEF Refuse, BucketTypeOK
          <5>5. Latest(t, reading) = reading
            <6>1. last[t] \in Nat \cup {None}
              BY <2>1 DEF BucketTypeOK
            <6>2. QED
              BY <3>1, <4>2, <6>1 DEF Latest, ClockBehind, Greater
          <5>6. Greater(0, promise'[t].from - last'[t]) = wait
            BY <3>1, <3>3, <5>3, <5>4, <5>5 DEF Greater
          <5>7. QED
            BY <3>1, <3>2, <5>3, <5>4, <5>6
        <4>3. CASE Refuse(t, cost, reading) /\ promise[t] # None
          <5>1. last[t] # None /\ last[t] \in Nat
            BY <2>1, <4>3 DEF BucketTypeOK
          <5>2. /\ promise'[t] = promise[t]
                /\ tokens'[t] = Refilled(t, reading)
            BY <2>1, <4>3 DEF Refuse, BucketTypeOK
          <5>3. /\ promise[t].cost \in Nat /\ promise[t].from \in Nat
            BY <2>1, <4>3 DEF BucketTypeOK
          <5>4. /\ promise[t].cost <= Capacity[t]
                /\ promise[t].cost <= tokens[t]
                     + Rate[t] * Greater(0, promise[t].from - last[t])
            BY <2>1, <4>3 DEF RetrySuffices
          <5>5. DEFINE moved == Latest(t, reading) - last[t]
                       before == Greater(0, promise[t].from - last[t])
                       after == Greater(0, promise[t].from - last'[t])
          <5>6. /\ moved \in Nat /\ before \in Nat /\ after \in Nat
                /\ before <= moved + after
            BY <3>1, <3>2, <3>3, <5>1, <5>3 DEF Greater, Latest
          <5>7. Rate[t] * before <= Rate[t] * moved + Rate[t] * after
            <6>1. Rate[t] * before <= Rate[t] * (moved + after)
              BY <3>1, <5>6
            <6>2. Rate[t] * (moved + after) = Rate[t] * moved + Rate[t] * after
              BY <3>1, <5>6
            <6>3. QED
              BY <6>1, <6>2
          <5>8. /\ Rate[t] * moved \in Nat
                /\ Refilled(t, reading)
                     = Lesser(Capacity[t], tokens[t] + Rate[t] * moved)
            BY <2>1, <3>1, <5>1, RefillGain
          <5>9. Rate[t] * after \in Nat /\ Rate[t] * before \in Nat
            BY <3>1, <5>6
          <5>10. promise[t].cost <= Refilled(t, reading) + Rate[t] * after
            BY <3>1, <5>3, <5>4, <5>7, <5>8, <5>9 DEF Lesser
          <5>11. QED
            BY <5>2, <5>4, <5>10
        <4>4. CASE /\ Refuse(t, cost, reading) /\ promise[t] = None
                   /\ ClockBehind(t, reading)
          BY <2>1, <4>4 DEF Refuse, BucketTypeOK
        <4>5. QED
          BY <2>2, <4>1, <4>2, <4>3, <4>4 DEF Consume
      <3>6. QED
        BY <2>1, <3>4, <3>5 DEF RetrySuffices
    <2>3. ASSUME NEW t \in Tenants, OpenWindow(t)
          PROVE  RetrySuffices'
      BY <2>1, <2>3 DEF OpenWindow, RetrySuffices
    <2>4. CASE UNCHANGED bucketVars
      BY <2>1, <2>4 DEF bucketVars, RetrySuffices
    <2>5. QED
      BY <2>1, <2>2, <2>3, <2>4 DEF BucketNext
  <1>3. QED
    BY <1>1, <1>2, BucketTypeCorrect, PTL DEF BucketSpec
-----------------------------------------------------------------------------
(* HostedService.  What an accepted configuration makes of the runtime,    *)
(* and that nothing happened before it was there.                          *)
HostedParts ==
    /\ Serving =>
          /\ UsesApiKeys(runtime.mode) => Has("access")
          /\ UsesX402(runtime.mode) =>
                \A part \in {"payments", "results", "claims", "sources"} : Has(part)
          /\ runtime.mode = "disabled" => runtime.ready # "ready"
    /\ ~Serving =>
          \A r \in Req : /\ conn[r].pc = "idle"
                         /\ job[r].path = None /\ answer[r].code = "none"

(* What is true of one request: how far it came, the path the mode allows  *)
(* it, what it was charged, and what it was told.                          *)
HostedRequest(r) ==
    /\ conn[r].pc \in {"idle", "body", "parse"} =>
          job[r].path = None /\ answer[r].code = "none"
    /\ conn[r].pc \in {"idle", "body"} => ~conn[r].cut
    /\ conn[r].pc \in {"work", "cancelled"} =>
          job[r].path # None /\ answer[r].code = "none"
    /\ conn[r].pc = "work" => bill[r].settled = 0
    /\ conn[r].pc # "done" \/ job[r].path # None => conn[r].got <= MaxBody
    /\ job[r].path # None => ~conn[r].cut
    /\ job[r].path \in {None, "open", "x402"} => bill[r].quota = 0
    /\ job[r].path \in {None, "open", "api_key"} => bill[r].settled = 0
    /\ job[r].path = "api_key" =>
          UsesApiKeys(runtime.mode) /\ bill[r].quota = 1
    /\ job[r].path = "x402" =>
          UsesX402(runtime.mode) /\ bill[r].settled \in {0, 1} /\ H(r).sig # None
    /\ job[r].path = "open" <=> job[r].path # None /\ runtime.mode = "open"
    /\ answer[r].code = "served" =>
          /\ job[r].path # None
          /\ Paid(r) => bill[r].settled = 1 /\ job[r].verified
    /\ answer[r].code \notin {"none", "served", "payment_failed"} =>
          bill[r].settled = 0
    /\ answer[r].code # "assertion"
    /\ runtime.ready = "ready" => answer[r].code # "not_configured"
    /\ answer[r].code = "too_large" =>
          conn[r].got > MaxBody \/ conn[r].declared > MaxBody

(* A completed entry, and so a replay, is the outcome of a request that    *)
(* ended under this very slot.                                             *)
Outcome(o, s, fp) ==
    /\ o \in Req /\ conn[o].pc = "done"
    /\ answer[o].code \in {"served", "payment_failed"}
    /\ job[o].path \in {"api_key", "x402"}
    /\ Mine(o) = s /\ H(o).body = fp
HostedLedger ==
    \A s \in Slot :
        ledger[s].state = "complete" => Outcome(ledger[s].resp, s, ledger[s].fp)
HostedReplay(r) ==
    answer[r].code = "replayed" =>
        /\ answer[r].from \in Req \ {r} /\ conn[r].pc = "done"
        /\ job[r].path \in {"api_key", "x402"}
        /\ Outcome(answer[r].from, Mine(r), H(r).body)
        /\ SameOrigin(r, answer[r].from)

HostedInv ==
    /\ TypeOK
    /\ HostedParts
    /\ \A r \in Req : HostedRequest(r) /\ HostedReplay(r)
    /\ HostedLedger

(* The steps of one request.                                               *)
HostedStep(r) ==
    \/ \E declared \in 0..MaxBody + 1 : Request(r, declared)
    \/ \E n \in 0..MaxChunk, more \in BOOLEAN : Receive(r, n, more)
    \/ Disconnect(r)
    \/ \E h \in Headers : Enter(r, h)
    \/ Fail(r)
    \/ Serve(r)
    \/ \E ok \in BOOLEAN, paid \in BOOLEAN : Settle(r, ok, paid)
    \/ \E submitted \in BOOLEAN, paid \in BOOLEAN : Cancel(r, submitted, paid)

(* A request's step concerns nobody else.                                  *)
LEMMA HostedOthers ==
    ASSUME TypeOK, NEW r \in Req, HostedStep(r)
    PROVE  /\ runtime' = runtime
           /\ \A u \in Req \ {r} : /\ conn'[u] = conn[u] /\ job'[u] = job[u]
                                   /\ bill'[u] = bill[u] /\ answer'[u] = answer[u]
  <1>1. ASSUME NEW declared \in 0..MaxBody + 1, Request(r, declared)
        PROVE  /\ runtime' = runtime
               /\ \A u \in Req \ {r} : /\ conn'[u] = conn[u] /\ job'[u] = job[u]
                                       /\ bill'[u] = bill[u] /\ answer'[u] = answer[u]
    BY <1>1 DEF Request, Say, TypeOK
  <1>2. ASSUME NEW n \in 0..MaxChunk, NEW more \in BOOLEAN, Receive(r, n, more)
        PROVE  /\ runtime' = runtime
               /\ \A u \in Req \ {r} : /\ conn'[u] = conn[u] /\ job'[u] = job[u]
                                       /\ bill'[u] = bill[u] /\ answer'[u] = answer[u]
    BY <1>2 DEF Receive, Say, TypeOK
  <1>3. CASE Disconnect(r)
    BY <1>3 DEF Disconnect, TypeOK
  <1>4. ASSUME NEW h \in Headers, Enter(r, h)
        PROVE  /\ runtime' = runtime
               /\ \A u \in Req \ {r} : /\ conn'[u] = conn[u] /\ job'[u] = job[u]
                                       /\ bill'[u] = bill[u] /\ answer'[u] = answer[u]
    <2>1. runtime' = runtime
      BY <1>4 DEF Enter
    <2>2. CASE Unreadable(r, h) \/ NotConfigured(r) \/ Free(r, h)
               \/ NoApiKey(r, h)
      BY <2>1, <2>2 DEF Unreadable, NotConfigured, Free, NoApiKey,
         Stay, End, Say, Put, TypeOK
    <2>3. CASE OnApiKey(r, h)
      BY <2>1, <2>3 DEF OnApiKey, AssertFails, Reserve,
         Stay, End, Say, Put, TypeOK
    <2>4. CASE OnPayment(r, h)
      BY <2>1, <2>4 DEF OnPayment, PaymentRequired, AssertFails, Reserve,
         Stay, End, Say, Put, TypeOK
    <2>5. QED
      BY <1>4, <2>2, <2>3, <2>4 DEF Enter
  <1>5. CASE Fail(r)
    BY <1>5 DEF Fail, End, Say, TypeOK
  <1>6. CASE Serve(r)
    BY <1>6 DEF Serve, Bound, End, Say, TypeOK
  <1>7. ASSUME NEW ok \in BOOLEAN, NEW paid \in BOOLEAN, Settle(r, ok, paid)
        PROVE  /\ runtime' = runtime
               /\ \A u \in Req \ {r} : /\ conn'[u] = conn[u] /\ job'[u] = job[u]
                                       /\ bill'[u] = bill[u] /\ answer'[u] = answer[u]
    BY <1>7 DEF Settle, Bound, End, Say, TypeOK
  <1>8. ASSUME NEW submitted \in BOOLEAN, NEW paid \in BOOLEAN,
               Cancel(r, submitted, paid)
        PROVE  /\ runtime' = runtime
               /\ \A u \in Req \ {r} : /\ conn'[u] = conn[u] /\ job'[u] = job[u]
                                       /\ bill'[u] = bill[u] /\ answer'[u] = answer[u]
    BY <1>8 DEF Cancel, TypeOK
  <1>9. QED
    BY <1>1, <1>2, <1>3, <1>4, <1>5, <1>6, <1>7, <1>8 DEF HostedStep

(* A step is that of a request which has not ended, in a process that is   *)
(* serving.                                                                *)
LEMMA HostedServes ==
    ASSUME HostedParts, NEW r \in Req, HostedStep(r)
    PROVE  Serving /\ conn[r].pc \in {"idle", "body", "parse", "work"}
  <1>1. conn[r].pc \in {"idle", "body", "parse", "work"}
    BY DEF HostedStep, Request, Receive, Disconnect, Enter, Fail, Serve, Settle,
           Cancel, Working
  <1>2. conn[r].pc = "idle" => Serving
    BY DEF HostedStep, Request, Receive, Disconnect, Enter, Fail, Serve, Settle,
           Cancel, Working
  <1>3. QED
    BY <1>1, <1>2 DEF HostedParts

(* The entries that the ledgers hold.                                      *)
LEMMA HostedEntries ==
    /\ Absent \in Entry
    /\ \A fp \in Body, r \in Req : Reserved(fp, r, 0, 0) \in Entry
    /\ \A e \in Entry, r \in Req :
          /\ Completed(e, r, 0) \in Entry
          /\ Completed(e, r, 0).resp = r /\ Completed(e, r, 0).fp = e.fp
    /\ Absent.state = "absent"
    /\ \A fp, r : Reserved(fp, r, 0, 0).state = "reserved"
  BY DEF Absent, Reserved, Completed, Entry, States

(* Where an admitted request's outcome would be kept.                      *)
LEMMA HostedSlots ==
    ASSUME NEW h \in Headers, h.key # None
    PROVE  /\ h.api \in Tenant => SlotOf("api_key", h) \in Slot
           /\ SlotOf("x402", h) \in Slot
  BY DEF Headers, SlotOf, Slot

(* Types of the ledger after a request's step.                             *)
LEMMA HostedLedgerTyped ==
    ASSUME TypeOK, NEW r \in Req, HostedStep(r)
    PROVE  ledger' \in [Slot -> Entry]
  <1>a. ledger \in [Slot -> Entry]
    BY DEF TypeOK
  <1>1. ASSUME NEW declared \in 0..MaxBody + 1, Request(r, declared)
        PROVE  ledger' = ledger
    BY <1>1 DEF Request
  <1>2. ASSUME NEW n \in 0..MaxChunk, NEW more \in BOOLEAN, Receive(r, n, more)
        PROVE  ledger' = ledger
    BY <1>2 DEF Receive
  <1>3. ASSUME NEW submitted \in BOOLEAN, NEW paid \in BOOLEAN, Cancel(r, submitted, paid)
        PROVE  ledger' = ledger
    BY <1>3 DEF Cancel
  <1>4. CASE Disconnect(r)
    BY <1>a, <1>4 DEF Disconnect
  <1>5. ASSUME NEW h \in Headers, Enter(r, h)
        PROVE  ledger' \in [Slot -> Entry]
    <2>1. ASSUME NEW path, Reserve(r, path, h), h.body \in Body
          PROVE  ledger' \in [Slot -> Entry]
      BY <1>a, <2>1, HostedEntries DEF Reserve
    <2>2. Readable(r, h) => h.body \in Body
      BY DEF Readable, Headers
    <2>3. QED
      BY <1>a, <1>5, <2>1, <2>2
      DEF Enter, Unreadable, NotConfigured, Free, OnApiKey, NoApiKey, OnPayment,
          AssertFails, PaymentRequired, Stay
  <1>6. Commit(r) \in [Slot -> Entry]
    BY <1>a, HostedEntries DEF Commit
  <1>7. CASE Fail(r)
    BY <1>a, <1>7, HostedEntries DEF Fail
  <1>8. CASE Serve(r)
    BY <1>a, <1>6, <1>8, HostedEntries DEF Serve
  <1>9. ASSUME NEW ok \in BOOLEAN, NEW paid \in BOOLEAN, Settle(r, ok, paid)
        PROVE  ledger' \in [Slot -> Entry]
    BY <1>6, <1>9 DEF Settle
  <1>10. QED
    BY <1>a, <1>1, <1>2, <1>3, <1>4, <1>5, <1>7, <1>8, <1>9 DEF HostedStep

(* Types of one connection, job, bill and answer.                          *)
Conn == [pc : {"idle", "body", "parse", "work", "done", "cancelled"},
         declared : 0..MaxBody + 1, got : Nat, cut : BOOLEAN]
Jobs == [head : Headers \cup {NoHead},
         path : {None, "open", "api_key", "x402"}, verified : BOOLEAN]
Bills == [quota : Nat, settled : Nat]
Told == [code : Codes, from : Req \cup {None}]
HostedTyped(r) ==
    conn[r] \in Conn /\ job[r] \in Jobs /\ bill[r] \in Bills /\ answer[r] \in Told

LEMMA HostedHeads ==
    ASSUME NEW h \in Headers
    PROVE  /\ [h EXCEPT !.sig = None] \in Headers /\ [h EXCEPT !.api = None] \in Headers
           /\ h.body \in Body => [NoHead EXCEPT !.body = h.body] \in Headers
  BY DEF Headers, NoHead

HostedWellTyped ==
    /\ conn \in [Req -> Conn] /\ job \in [Req -> Jobs]
    /\ bill \in [Req -> Bills] /\ answer \in [Req -> Told]

LEMMA HostedTypes == TypeOK => HostedWellTyped
  BY DEF TypeOK, HostedWellTyped, Conn, Jobs, Bills, Told

LEMMA HostedTell ==
    ASSUME HostedWellTyped, NEW r \in Req, NEW code \in Codes
    PROVE  /\ \A from \in Req \cup {None} : Say(r, code, from) => answer' \in [Req -> Told]
           /\ End(r, code) => conn' \in [Req -> Conn] /\ answer' \in [Req -> Told]
  <1>1. ASSUME NEW from \in Req \cup {None}, Say(r, code, from)
        PROVE  answer' \in [Req -> Told]
    BY <1>1 DEF HostedWellTyped, Say, Told
  <1>2. ASSUME End(r, code)
        PROVE  conn' \in [Req -> Conn] /\ answer' \in [Req -> Told]
    <2>1. conn' \in [Req -> Conn]
      BY <1>2 DEF End, HostedWellTyped, Conn
    <2>2. QED
      BY <1>1, <1>2, <2>1 DEF End
  <1>3. QED
    BY <1>1, <1>2

LEMMA HostedTypedStep ==
    ASSUME HostedWellTyped, ledger \in [Slot -> Entry], NEW r \in Req, HostedStep(r)
    PROVE  HostedWellTyped'
  <1> USE HostedAssumption
  <1>1. ASSUME NEW declared \in 0..MaxBody + 1, Request(r, declared)
        PROVE  HostedWellTyped'
    <2>1. job' = job /\ bill' = bill
      BY <1>1 DEF Request
    <2>2. conn' \in [Req -> Conn]
      <3>1. CASE conn' = [conn EXCEPT ![r].pc = "done", ![r].declared = declared]
        <4>1. PICK c \in Conn : c = conn[r]
          BY DEF HostedWellTyped
        <4>2. [c EXCEPT !.pc = "done", !.declared = declared] \in Conn
          BY DEF Conn
        <4>3. conn' = [conn EXCEPT ![r] = [c EXCEPT !.pc = "done", !.declared = declared]]
          BY <3>1, <4>1 DEF HostedWellTyped
        <4>4. QED
          BY <4>2, <4>3 DEF HostedWellTyped
      <3>2. CASE conn' = [conn EXCEPT ![r].pc = "body"]
        BY <3>2 DEF HostedWellTyped, Conn
      <3>3. QED
        BY <1>1, <3>1, <3>2 DEF Request
    <2>3. answer' \in [Req -> Told]
      BY <1>1, HostedTell DEF Request, HostedWellTyped, Codes
    <2>4. QED
      BY <2>1, <2>2, <2>3 DEF HostedWellTyped
  <1>2. ASSUME NEW n \in 0..MaxChunk, NEW more \in BOOLEAN, Receive(r, n, more)
        PROVE  HostedWellTyped'
    <2>1. job' = job /\ bill' = bill
      BY <1>2 DEF Receive
    <2>2. conn' \in [Req -> Conn]
      BY <1>2 DEF Receive, HostedWellTyped, Conn
    <2>3. answer' \in [Req -> Told]
      BY <1>2, HostedTell DEF Receive, HostedWellTyped, Codes
    <2>4. QED
      BY <2>1, <2>2, <2>3 DEF HostedWellTyped
  <1>3. CASE Disconnect(r)
    BY <1>3 DEF Disconnect, HostedWellTyped, Conn
  <1>4. ASSUME NEW h \in Headers, Enter(r, h)
        PROVE  HostedWellTyped'
    <2>1. ASSUME NEW path \in {"api_key", "x402"}, Reserve(r, path, h),
                 h.key # None => SlotOf(path, h) \in Slot
          PROVE  conn' \in [Req -> Conn] /\ answer' \in [Req -> Told]
      <3>1. CASE \E code \in Codes : End(r, code)
        BY <3>1, HostedTell
      <3>2. CASE conn' = [conn EXCEPT ![r].pc = "work"] /\ answer' = answer
        BY <3>2 DEF HostedWellTyped, Conn
      <3>3. CASE /\ conn' = [conn EXCEPT ![r].pc = "done"]
                 /\ h.key # None /\ Say(r, "replayed", ledger[SlotOf(path, h)].resp)
        <4>1. ledger[SlotOf(path, h)].resp \in Req \cup {None}
          BY <2>1, <3>3 DEF Entry
        <4>2. answer' \in [Req -> Told]
          BY <3>3, <4>1, HostedTell DEF Codes
        <4>3. QED
          BY <3>3, <4>2 DEF HostedWellTyped, Conn
      <3>4. QED
        BY <2>1, <3>1, <3>2, <3>3 DEF Reserve, Codes
    <2>2. ASSUME NEW code \in Codes, End(r, code), Stay
          PROVE  HostedWellTyped'
      BY <2>2, HostedTell DEF Stay, HostedWellTyped
    <2>3. CASE \E code \in Codes : End(r, code) /\ Stay
      BY <2>2, <2>3
    <2>4. CASE Readable(r, h) /\ Free(r, h)
      <3>1. job' \in [Req -> Jobs]
        <4>1. [NoHead EXCEPT !.body = h.body] \in Headers
          BY <2>4, HostedHeads DEF Readable, Headers
        <4>2. QED
          BY <2>4, <4>1 DEF Free, Put, HostedWellTyped, Jobs
      <3>2. conn' \in [Req -> Conn]
        BY <2>4 DEF Free, HostedWellTyped, Conn
      <3>3. QED
        BY <2>4, <3>1, <3>2 DEF Free, HostedWellTyped
    <2>5. CASE /\ bill' = [bill EXCEPT ![r].quota = @ + 1]
               /\ h.api \in Tenant
               /\ Put(r, "api_key", [h EXCEPT !.sig = None])
               /\ Reserve(r, "api_key", h)
      <3>1. job' \in [Req -> Jobs]
        <4>1. [h EXCEPT !.sig = None] \in Headers
          BY HostedHeads
        <4>2. QED
          BY <2>5, <4>1 DEF Put, HostedWellTyped, Jobs
      <3>2. bill' \in [Req -> Bills]
        BY <2>5 DEF HostedWellTyped, Bills
      <3>3. QED
        BY <2>1, <2>5, <3>1, <3>2, HostedSlots DEF HostedWellTyped
    <2>6. CASE /\ Put(r, "x402", [h EXCEPT !.api = None])
               /\ Reserve(r, "x402", h)
               /\ bill' = bill
      <3>1. job' \in [Req -> Jobs]
        <4>1. [h EXCEPT !.api = None] \in Headers
          BY HostedHeads
        <4>2. QED
          BY <2>6, <4>1 DEF Put, HostedWellTyped, Jobs
      <3>2. QED
        BY <2>1, <2>6, <3>1, HostedSlots DEF HostedWellTyped
    <2>7. QED
      BY <1>4, <2>3, <2>4, <2>5, <2>6
      DEF Enter, Unreadable, NotConfigured, OnApiKey, NoApiKey, OnPayment, AssertFails,
          PaymentRequired, Codes
  <1>5. CASE Fail(r)
    BY <1>5, HostedTell DEF Fail, HostedWellTyped, Codes
  <1>6. ASSUME Bound(r)
        PROVE  job' \in [Req -> Jobs]
    <2>1. Has("sources") \in BOOLEAN
      BY DEF Has
    <2>2. PICK b \in BOOLEAN : b = Has("sources")
      BY <2>1
    <2>3. job' = [job EXCEPT ![r].verified = b]
      BY <1>6, <2>2 DEF Bound
    <2>4. QED
      BY <2>3 DEF HostedWellTyped, Jobs
  <1>7. CASE Serve(r)
    BY <1>6, <1>7, HostedTell DEF Serve, HostedWellTyped, Codes
  <1>8. ASSUME NEW ok \in BOOLEAN, NEW paid \in BOOLEAN, Settle(r, ok, paid)
        PROVE  HostedWellTyped'
    <2>1. bill' \in [Req -> Bills]
      BY <1>8 DEF Settle, HostedWellTyped, Bills
    <2>2. conn' \in [Req -> Conn] /\ answer' \in [Req -> Told]
      BY <1>8, HostedTell DEF Settle, Codes
    <2>3. QED
      BY <1>6, <1>8, <2>1, <2>2 DEF Settle, HostedWellTyped
  <1>9. ASSUME NEW submitted \in BOOLEAN, NEW paid \in BOOLEAN,
               Cancel(r, submitted, paid)
        PROVE  HostedWellTyped'
    <2>1. bill' \in [Req -> Bills]
      BY <1>9 DEF Cancel, HostedWellTyped, Bills
    <2>2. conn' \in [Req -> Conn]
      BY <1>9 DEF Cancel, HostedWellTyped, Conn
    <2>3. QED
      BY <1>9, <2>1, <2>2 DEF Cancel, HostedWellTyped
  <1>10. QED
    BY <1>1, <1>2, <1>3, <1>4, <1>5, <1>7, <1>8, <1>9 DEF HostedStep

(* What a step makes of the request that takes it.                         *)
LEMMA HostedRequestStep ==
    ASSUME HostedWellTyped, HostedParts, NEW r \in Req, HostedRequest(r), HostedStep(r)
    PROVE  HostedRequest(r)'
  <1> USE HostedAssumption
  <1>a. /\ conn[r] \in Conn /\ job[r] \in Jobs /\ bill[r] \in Bills /\ answer[r] \in Told
        /\ MaxBody \in Nat
    BY DEF HostedWellTyped
  <1>b. Serving /\ runtime' = runtime
    BY HostedServes DEF HostedStep, Request, Receive, Disconnect, Enter, Fail, Serve,
       Settle, Cancel
  <1>c. ASSUME NEW code, NEW from, Say(r, code, from)
        PROVE  answer'[r].code = code
    BY <1>c DEF Say, HostedWellTyped
  <1>d. ASSUME NEW code, End(r, code)
        PROVE  /\ answer'[r].code = code /\ conn'[r].pc = "done"
               /\ conn'[r].got = conn[r].got /\ conn'[r].cut = conn[r].cut
               /\ conn'[r].declared = conn[r].declared
    BY <1>c, <1>d DEF End, HostedWellTyped, Conn
  <1>1. ASSUME NEW declared \in 0..MaxBody + 1, Request(r, declared)
        PROVE  HostedRequest(r)'
    <2>1. /\ job'[r] = job[r] /\ bill'[r] = bill[r] /\ conn[r].pc = "idle"
      BY <1>1 DEF Request
    <2>2. CASE declared > MaxBody /\ conn'[r].pc = "done" /\ conn'[r].declared = declared
               /\ conn'[r].got = conn[r].got /\ answer'[r].code = "too_large"
      BY <1>a, <1>b, <2>1, <2>2 DEF HostedRequest, Paid, H
    <2>3. CASE conn'[r].pc = "body" /\ conn'[r].got = conn[r].got
               /\ conn'[r].cut = conn[r].cut /\ answer'[r] = answer[r]
      BY <1>a, <1>b, <2>1, <2>3 DEF HostedRequest, Paid, H
    <2>4. QED
      BY <1>1, <1>c, <2>2, <2>3 DEF Request, HostedWellTyped, Conn
  <1>2. ASSUME NEW n \in 0..MaxChunk, NEW more \in BOOLEAN, Receive(r, n, more)
        PROVE  HostedRequest(r)'
    <2>1. /\ job'[r] = job[r] /\ bill'[r] = bill[r] /\ conn[r].pc = "body"
      BY <1>2 DEF Receive
    <2>2. CASE conn'[r].pc = "done" /\ conn'[r].got = conn[r].got + n
               /\ conn[r].got + n > MaxBody
               /\ answer'[r].code = "too_large"
      BY <1>a, <1>b, <2>1, <2>2 DEF HostedRequest, Paid, H
    <2>3. CASE conn'[r].pc \in {"body", "parse"} /\ conn'[r].got = conn[r].got + n
               /\ conn[r].got + n <= MaxBody
               /\ conn'[r].cut = conn[r].cut /\ answer'[r] = answer[r]
      BY <1>a, <1>b, <2>1, <2>3 DEF HostedRequest, Paid, H
    <2>4. QED
      BY <1>2, <1>c, <2>2, <2>3 DEF Receive, Counted, HostedWellTyped, Conn
  <1>3. CASE Disconnect(r)
    <2>1. /\ job'[r] = job[r] /\ bill'[r] = bill[r] /\ conn[r].pc = "body"
          /\ conn'[r].pc = "parse" /\ conn'[r].got = conn[r].got /\ answer'[r] = answer[r]
      BY <1>3 DEF Disconnect, HostedWellTyped, Conn
    <2>2. QED
      BY <1>a, <1>b, <2>1 DEF HostedRequest, Paid, H
  <1>4. CASE Fail(r)
    <2>1. /\ job'[r] = job[r] /\ bill'[r] = bill[r] /\ conn[r].pc = "work"
      BY <1>4 DEF Fail, Working
    <2>2. ~(Paid(r) /\ ~(Has("payments") /\ Has("claims")))
      BY <1>b DEF HostedRequest, HostedParts, Paid
    <2>3. End(r, "failed")
      BY <1>4, <2>2 DEF Fail
    <2>4. QED
      BY <1>a, <1>b, <1>d, <2>1, <2>3 DEF HostedRequest, Paid, H
  <1>5. ASSUME Bound(r)
        PROVE  /\ job'[r].path = job[r].path /\ job'[r].head = job[r].head
               /\ job'[r].verified = Has("sources")
    BY <1>5 DEF Bound, HostedWellTyped, Jobs
  <1>6. CASE Serve(r)
    <2>1. /\ bill'[r] = bill[r] /\ conn[r].pc = "work" /\ ~Paid(r)
          /\ answer'[r].code = "served" /\ conn'[r].pc = "done"
          /\ conn'[r].got = conn[r].got /\ conn'[r].cut = conn[r].cut
      BY <1>6, <1>d DEF Serve, Working
    <2>2. job'[r].path = job[r].path /\ job'[r].head = job[r].head
      BY <1>5, <1>6 DEF Serve
    <2>3. QED
      BY <1>a, <1>b, <2>1, <2>2 DEF HostedRequest, Paid, H
  <1>7. ASSUME NEW ok \in BOOLEAN, NEW paid \in BOOLEAN, Settle(r, ok, paid)
        PROVE  HostedRequest(r)'
    <2>1. /\ conn[r].pc = "work" /\ Paid(r) /\ conn'[r].pc = "done"
          /\ answer'[r].code = (IF ok THEN "served" ELSE "payment_failed")
          /\ conn'[r].got = conn[r].got /\ conn'[r].cut = conn[r].cut
      BY <1>7, <1>d DEF Settle, Working
    <2>2. job'[r].path = job[r].path /\ job'[r].head = job[r].head
      BY <1>5, <1>7 DEF Settle
    <2>3. Has("sources") /\ job'[r].verified
      BY <1>b, <1>5, <1>7, <2>1 DEF Settle, HostedRequest, HostedParts, Paid
    <2>4. /\ bill'[r].quota = bill[r].quota
          /\ bill'[r].settled = IF paid THEN 1 ELSE 0
          /\ ok => paid
      BY <1>7, <2>1 DEF Settle, HostedRequest, HostedWellTyped, Bills
    <2>5. QED
      BY <1>a, <1>b, <2>1, <2>2, <2>3, <2>4 DEF HostedRequest, Paid, H
  <1>8. ASSUME NEW submitted \in BOOLEAN, NEW paid \in BOOLEAN,
               Cancel(r, submitted, paid)
        PROVE  HostedRequest(r)'
    <2>1. /\ conn[r].pc = "work" /\ conn'[r].pc = "cancelled"
          /\ conn'[r].got = conn[r].got /\ conn'[r].cut = conn[r].cut
          /\ job'[r] = job[r] /\ answer'[r] = answer[r]
      BY <1>8 DEF Cancel, Working, HostedWellTyped, Conn
    <2>2. /\ bill'[r].quota = bill[r].quota
          /\ bill'[r].settled = IF paid THEN 1 ELSE 0
          /\ paid => Paid(r)
      BY <1>8, <2>1 DEF Cancel, HostedRequest, HostedWellTyped, Bills
    <2>3. QED
      BY <1>a, <1>b, <2>1, <2>2 DEF HostedRequest, Paid, H
  <1>9. ASSUME NEW h \in Headers, Enter(r, h)
        PROVE  HostedRequest(r)'
    <2>a. conn[r].pc = "parse" /\ job[r].path = None
      BY <1>9 DEF Enter, HostedRequest
    <2>1. ASSUME NEW code, End(r, code), Stay, code \notin {"none", "served", "assertion", "too_large"},
                 code = "not_configured" => runtime.mode = "disabled"
          PROVE  HostedRequest(r)'
      BY <1>a, <1>b, <1>d, <2>a, <2>1 DEF Stay, HostedRequest, HostedParts, Paid, H
    <2>2. ASSUME NEW path \in {"api_key", "x402"}, Reserve(r, path, h)
          PROVE  /\ conn'[r].got = conn[r].got /\ conn'[r].cut = conn[r].cut
                 /\ \/ conn'[r].pc = "work" /\ answer'[r] = answer[r]
                    \/ /\ conn'[r].pc = "done"
                       /\ answer'[r].code \in {"invalid_key", "conflict", "in_progress",
                             "proof_mismatch", "replayed", "capacity"}
      <3>1. CASE \E code \in {"invalid_key", "conflict", "in_progress",
                              "proof_mismatch", "capacity"} : End(r, code)
        BY <1>d, <3>1
      <3>2. CASE conn' = [conn EXCEPT ![r].pc = "work"] /\ answer' = answer
        BY <3>2 DEF HostedWellTyped, Conn
      <3>3. CASE /\ conn' = [conn EXCEPT ![r].pc = "done"]
                 /\ Say(r, "replayed", ledger[SlotOf(path, h)].resp)
        BY <1>c, <3>3 DEF HostedWellTyped, Conn
      <3>4. QED
        BY <2>2, <3>1, <3>2, <3>3 DEF Reserve
    <2>3. ASSUME NEW path, NEW head, Put(r, path, head)
          PROVE  job'[r].path = path /\ job'[r].head = head
      BY <2>3 DEF Put, HostedWellTyped, Jobs
    <2>4. CASE Unreadable(r, h)
      BY <2>1, <2>4 DEF Unreadable
    <2>5. CASE Readable(r, h) /\ NotConfigured(r)
      BY <2>1, <2>5 DEF NotConfigured
    <2>6. CASE Readable(r, h) /\ Free(r, h)
      <3>1. /\ job'[r].path = "open" /\ runtime.mode = "open" /\ bill'[r] = bill[r]
            /\ answer'[r] = answer[r]
            /\ conn'[r].pc = "work" /\ conn'[r].got = conn[r].got
            /\ conn'[r].cut = conn[r].cut /\ ~conn[r].cut
        BY <2>3, <2>6 DEF Free, Readable, HostedWellTyped, Conn
      <3>2. QED
        BY <1>a, <1>b, <2>a, <3>1 DEF HostedRequest, Paid, H
    <2>7. CASE Readable(r, h) /\ OnApiKey(r, h)
      <3>1. Has("access") /\ UsesApiKeys(runtime.mode)
        BY <1>b, <2>7 DEF OnApiKey, ByApiKey, HostedParts
      <3>2. CASE \E code \in {"unauthorized", "quota"} : End(r, code) /\ Stay
        BY <2>1, <3>2
      <3>3. CASE /\ bill' = [bill EXCEPT ![r].quota = @ + 1]
                 /\ Put(r, "api_key", [h EXCEPT !.sig = None])
                 /\ Reserve(r, "api_key", h)
        <4>1. job'[r].path = "api_key"
          BY <2>3, <3>3
        <4>2. bill'[r].quota = bill[r].quota + 1 /\ bill'[r].settled = bill[r].settled
          BY <3>3 DEF HostedWellTyped, Bills
        <4>3. runtime.mode # "open" /\ ~conn[r].cut
          BY <2>7, <3>1 DEF UsesApiKeys, Readable
        <4>4. bill'[r].quota = 1 /\ bill'[r].settled = 0
          BY <1>a, <2>a, <4>2 DEF HostedRequest, Bills
        <4>5. QED
          BY <1>a, <1>b, <2>a, <2>2, <3>1, <3>3, <4>1, <4>3, <4>4 DEF HostedRequest, Paid, H
      <3>4. QED
        BY <2>7, <3>1, <3>2, <3>3 DEF OnApiKey
    <2>8. CASE Readable(r, h) /\ NoApiKey(r, h)
      <3>1. Has("access")
        BY <1>b, <2>8 DEF NoApiKey, HostedParts, UsesApiKeys
      <3>2. QED
        BY <2>1, <2>8, <3>1 DEF NoApiKey
    <2>9. CASE Readable(r, h) /\ OnPayment(r, h)
      <3>1. UsesX402(runtime.mode) /\ Has("results") /\ runtime.mode # "open"
        BY <1>b, <2>9 DEF OnPayment, HostedParts, UsesX402, Serving, Modes
      <3>2. CASE PaymentRequired(r)
        BY <2>1, <3>2 DEF PaymentRequired
      <3>3. CASE /\ h.sig # None
                 /\ Put(r, "x402", [h EXCEPT !.api = None])
                 /\ Reserve(r, "x402", h)
                 /\ bill' = bill
        <4>1. job'[r].path = "x402" /\ job'[r].head.sig = h.sig
          BY <2>3, <3>3 DEF Headers
        <4>2. /\ bill'[r].quota = 0 /\ bill'[r].settled = 0 /\ ~conn[r].cut
              /\ conn[r].got <= MaxBody /\ H(r)'.sig # None
          BY <2>a, <2>9, <3>3, <4>1 DEF HostedRequest, Readable, H
        <4>3. answer[r].code = "none"
          BY <2>a DEF HostedRequest
        <4>4. /\ conn'[r].got = conn[r].got /\ conn'[r].cut = conn[r].cut
              /\ \/ conn'[r].pc = "work" /\ answer'[r].code = "none"
                 \/ /\ conn'[r].pc = "done"
                    /\ answer'[r].code \in {"invalid_key", "conflict", "in_progress",
                          "proof_mismatch", "replayed", "capacity"}
          BY <2>2, <3>3, <4>3
        <4>5. job'[r].path \notin {None, "open", "api_key"}
          BY <4>1
        <4>6. QED
          BY <1>b, <3>1, <4>1, <4>2, <4>4, <4>5 DEF HostedRequest, Paid
      <3>4. QED
        BY <2>9, <3>1, <3>2, <3>3 DEF OnPayment
    <2>10. QED
      BY <1>9, <2>4, <2>5, <2>6, <2>7, <2>8, <2>9 DEF Enter
  <1>10. QED
    BY <1>1, <1>2, <1>3, <1>4, <1>6, <1>7, <1>8, <1>9 DEF HostedStep

(* An answer is final: no later step touches a request that has one.       *)
LEMMA HostedFinal ==
    ASSUME TypeOK, HostedParts, NEW r \in Req, HostedStep(r),
           NEW o \in Req, conn[o].pc = "done"
    PROVE  /\ o # r
           /\ conn'[o] = conn[o] /\ job'[o] = job[o] /\ answer'[o] = answer[o]
  <1>1. o # r
    BY HostedServes
  <1>2. QED
    BY <1>1, HostedOthers

LEMMA OutcomeStays ==
    ASSUME TypeOK, HostedParts, NEW r \in Req, HostedStep(r),
           NEW o, NEW s, NEW fp, Outcome(o, s, fp)
    PROVE  Outcome(o, s, fp)'
  <1>1. o \in Req /\ conn[o].pc = "done"
    BY DEF Outcome
  <1>2. conn'[o] = conn[o] /\ job'[o] = job[o] /\ answer'[o] = answer[o]
    BY <1>1, HostedFinal
  <1>3. QED
    BY <1>2 DEF Outcome, Mine, H

(* A step publishes at most its own outcome, under its own slot.           *)
Published(r, s) ==
    /\ ledger'[s].resp = r /\ ledger'[s].fp = H(r).body
    /\ Mine(r) = s /\ job[r].path \in {"api_key", "x402"}
    /\ conn'[r].pc = "done" /\ answer'[r].code \in {"served", "payment_failed"}
    /\ job'[r].path = job[r].path /\ job'[r].head = job[r].head

LEMMA HostedPublish ==
    ASSUME TypeOK, HostedWellTyped, HostedParts, NEW r \in Req, HostedRequest(r),
           HostedStep(r), NEW s \in Slot, ledger'[s].state = "complete"
    PROVE  ledger'[s] = ledger[s] \/ Published(r, s)
  <1>a. ledger \in [Slot -> Entry] /\ job[r] \in Jobs
    BY DEF TypeOK, HostedWellTyped
  <1>b. ASSUME NEW code, End(r, code)
        PROVE  answer'[r].code = code /\ conn'[r].pc = "done"
    BY <1>b DEF End, Say, HostedWellTyped, Conn
  <1>c. ASSUME ledger' = Commit(r), conn[r].pc = "work", Bound(r),
               NEW code \in {"served", "payment_failed"}, End(r, code)
        PROVE  ledger'[s] = ledger[s] \/ Published(r, s)
    <2>1. CASE ~Holds(r) \/ Mine(r) # s
      BY <1>a, <1>c, <2>1 DEF Commit
    <2>2. CASE Holds(r) /\ Mine(r) = s
      <3>1. ledger'[s] = Completed(ledger[s], r, 0)
        BY <1>a, <1>c, <2>2 DEF Commit
      <3>2. ledger[s].fp = H(r).body
        BY <2>2 DEF Holds, Owns
      <3>3. ledger'[s].resp = r /\ ledger'[s].fp = H(r).body
        BY <1>a, <3>1, <3>2, HostedEntries
      <3>4. job[r].path \in {"api_key", "x402"}
        BY <1>a, <1>c, <2>2 DEF Holds, HostedRequest, Jobs
      <3>5. job'[r].path = job[r].path /\ job'[r].head = job[r].head
        BY <1>c DEF Bound, HostedWellTyped, Jobs
      <3>6. QED
        BY <1>b, <1>c, <2>2, <3>3, <3>4, <3>5 DEF Published
    <2>3. QED
      BY <2>1, <2>2
  <1>1. CASE \/ \E declared \in 0..MaxBody + 1 : Request(r, declared)
             \/ \E n \in 0..MaxChunk, more \in BOOLEAN : Receive(r, n, more)
             \/ Disconnect(r)
             \/ \E submitted \in BOOLEAN, paid \in BOOLEAN : Cancel(r, submitted, paid)
    BY <1>1 DEF Request, Receive, Disconnect, Cancel
  <1>2. ASSUME NEW h \in Headers, Enter(r, h)
        PROVE  ledger'[s] = ledger[s]
    <2>1. ASSUME NEW path, Reserve(r, path, h)
          PROVE  ledger'[s] = ledger[s]
      <3>1. CASE ledger' = [ledger EXCEPT ![SlotOf(path, h)] = Reserved(h.body, r, 0, 0)]
        BY <1>a, <3>1, HostedEntries
      <3>2. QED
        BY <2>1, <3>1 DEF Reserve
    <2>2. QED
      BY <1>2, <2>1
      DEF Enter, Unreadable, NotConfigured, Free, OnApiKey, NoApiKey, OnPayment,
          AssertFails, PaymentRequired, Stay
  <1>3. ASSUME NEW m, ledger' = [ledger EXCEPT ![m] = Absent]
        PROVE  ledger'[s] = ledger[s]
    BY <1>a, <1>3, HostedEntries
  <1>4. CASE Fail(r)
    BY <1>3, <1>4 DEF Fail
  <1>5. CASE Serve(r)
    BY <1>c, <1>3, <1>5 DEF Serve, Working
  <1>6. ASSUME NEW ok \in BOOLEAN, NEW paid \in BOOLEAN, Settle(r, ok, paid)
        PROVE  ledger'[s] = ledger[s] \/ Published(r, s)
    BY <1>c, <1>6 DEF Settle, Working
  <1>7. QED
    BY <1>1, <1>2, <1>4, <1>5, <1>6 DEF HostedStep

(* A request is answered with a replay by reserve() finding a completed    *)
(* entry under its slot, for its body and, if it was paid, for its proof.  *)
Replayed(r, path, h) ==
    LET e == ledger[SlotOf(path, h)] IN
    /\ SlotOf(path, h) \in Slot
    /\ e.state = "complete" /\ e.fp = h.body
    /\ Replayable(path, h, e)
    /\ answer'[r].from = e.resp
    /\ conn'[r].pc = "done" /\ job'[r].path = path
    /\ job'[r].head.key = h.key /\ job'[r].head.body = h.body
    /\ path = "api_key" => job'[r].head.api = h.api
    /\ path = "x402" => job'[r].head.sig = h.sig

LEMMA HostedReplays ==
    ASSUME TypeOK, HostedWellTyped, HostedParts, NEW r \in Req, HostedRequest(r),
           HostedStep(r), answer'[r].code = "replayed"
    PROVE  \E path \in {"api_key", "x402"}, h \in Headers : Replayed(r, path, h)
  <1>a. answer[r].code = "none"
    BY HostedServes DEF HostedRequest
  <1>b. ASSUME NEW code, NEW from, Say(r, code, from)
        PROVE  answer'[r].code = code /\ answer'[r].from = from
    BY <1>b DEF Say, HostedWellTyped
  <1>c. ASSUME NEW code, End(r, code)
        PROVE  code = "replayed"
    BY <1>b, <1>c DEF End
  <1>1. ASSUME NEW h \in Headers, Enter(r, h)
        PROVE  \E path \in {"api_key", "x402"}, g \in Headers : Replayed(r, path, g)
    <2>1. ASSUME NEW path \in {"api_key", "x402"}, NEW head, Put(r, path, head),
                 Reserve(r, path, h), h.key # None => SlotOf(path, h) \in Slot,
                 head.key = h.key, head.body = h.body,
                 path = "api_key" => head.api = h.api,
                 path = "x402" => head.sig = h.sig
          PROVE  Replayed(r, path, h)
      <3>1. PICK s : s = SlotOf(path, h)
        OBVIOUS
      <3>2. /\ h.key # None /\ Lookup(ledger[s], h.body) = "replay"
            /\ Replayable(path, h, ledger[s])
            /\ conn' = [conn EXCEPT ![r].pc = "done"]
            /\ Say(r, "replayed", ledger[s].resp)
        BY <1>a, <1>c, <2>1, <3>1 DEF Reserve
      <3>3. s \in Slot /\ ledger[s] \in Entry
        BY <2>1, <3>1, <3>2 DEF TypeOK
      <3>4. ledger[s].state = "complete" /\ ledger[s].fp = h.body
        BY <3>2, <3>3 DEF Lookup, IsPresent, Entry, States
      <3>5. job'[r].path = path /\ job'[r].head = head
        BY <2>1 DEF Put, HostedWellTyped, Jobs
      <3>6. conn'[r].pc = "done" /\ answer'[r].from = ledger[s].resp
        BY <1>b, <3>2 DEF HostedWellTyped, Conn
      <3>7. QED
        BY <2>1, <3>1, <3>2, <3>3, <3>4, <3>5, <3>6 DEF Replayed
    <2>2. CASE OnApiKey(r, h)
      <3>1. /\ h.api \in Tenant /\ Reserve(r, "api_key", h)
            /\ Put(r, "api_key", [h EXCEPT !.sig = None])
        BY <1>c, <2>2 DEF OnApiKey, AssertFails
      <3>2. PICK head : head = [h EXCEPT !.sig = None]
        OBVIOUS
      <3>3. head.key = h.key /\ head.body = h.body /\ head.api = h.api
        BY <3>2 DEF Headers
      <3>4. Replayed(r, "api_key", h)
        BY <2>1, <3>1, <3>2, <3>3, HostedSlots
      <3>5. QED
        BY <3>4
    <2>3. CASE OnPayment(r, h)
      <3>1. Reserve(r, "x402", h) /\ Put(r, "x402", [h EXCEPT !.api = None])
        BY <1>c, <2>3 DEF OnPayment, AssertFails, PaymentRequired
      <3>2. PICK head : head = [h EXCEPT !.api = None]
        OBVIOUS
      <3>3. head.key = h.key /\ head.body = h.body /\ head.sig = h.sig
        BY <3>2 DEF Headers
      <3>4. Replayed(r, "x402", h)
        BY <2>1, <3>1, <3>2, <3>3, HostedSlots
      <3>5. QED
        BY <3>4
    <2>4. QED
      BY <1>a, <1>1, <1>c, <2>2, <2>3 DEF Enter, Unreadable, NotConfigured, Free, NoApiKey
  <1>2. CASE \E declared \in 0..MaxBody + 1 : Request(r, declared)
    BY <1>a, <1>b, <1>2 DEF Request
  <1>3. CASE \E n \in 0..MaxChunk, more \in BOOLEAN : Receive(r, n, more)
    BY <1>a, <1>b, <1>3 DEF Receive
  <1>4. CASE Disconnect(r)
    BY <1>a, <1>4 DEF Disconnect
  <1>5. CASE Fail(r)
    BY <1>c, <1>5 DEF Fail
  <1>6. CASE Serve(r)
    BY <1>c, <1>6 DEF Serve
  <1>7. CASE \E ok \in BOOLEAN, paid \in BOOLEAN : Settle(r, ok, paid)
    BY <1>c, <1>7 DEF Settle
  <1>8. CASE \E submitted \in BOOLEAN, paid \in BOOLEAN : Cancel(r, submitted, paid)
    BY <1>a, <1>8 DEF Cancel
  <1>9. QED
    BY <1>1, <1>2, <1>3, <1>4, <1>5, <1>6, <1>7, <1>8 DEF HostedStep

(* A replay is of a request of the same path, key, body and payer.         *)
LEMMA HostedReplayStep ==
    ASSUME HostedInv, NEW r \in Req, HostedStep(r), answer'[r].code = "replayed"
    PROVE  HostedReplay(r)'
  <1>1. PICK path \in {"api_key", "x402"}, h \in Headers : Replayed(r, path, h)
    BY HostedReplays, HostedTypes DEF HostedInv
  <1>2. PICK s, o : s = SlotOf(path, h) /\ o = ledger[s].resp
    BY <1>1 DEF Replayed
  <1>3. Outcome(o, s, h.body)
    BY <1>1, <1>2 DEF Replayed, HostedInv, HostedLedger
  <1>4. o \in Req /\ o # r /\ job'[o] = job[o] /\ answer'[o] = answer[o] /\ conn'[o] = conn[o]
    BY <1>3, HostedFinal DEF Outcome, HostedInv
  <1>5. Outcome(o, s, h.body)'
    BY <1>3, OutcomeStays DEF HostedInv
  <1>6. Mine(r)' = s
    BY <1>1, <1>2 DEF Replayed, Mine, H, SlotOf
  <1>7. H(r)'.body = h.body /\ H(r)'.key = h.key
    BY <1>1 DEF Replayed, H
  <1>8. SameOrigin(r, o)'
    <2>1. /\ SlotOf(job[o].path, H(o)) = SlotOf(path, h) /\ H(o).body = h.body
          /\ job[o].path \in {"api_key", "x402"}
      BY <1>2, <1>3 DEF Outcome, Mine
    <2>2. job[o].path = path /\ H(o).key = h.key /\ (path = "api_key" => H(o).api = h.api)
      BY <2>1 DEF SlotOf
    <2>3. path = "x402" => H(o).sig = h.sig
      BY <1>1, <1>2 DEF Replayed, Replayable
    <2>4. H(o)' = H(o) /\ job'[o].path = path /\ job'[r].path = path
      BY <1>1, <1>4, <2>2 DEF H, Replayed
    <2>5. /\ path = "api_key" => H(r)'.api = h.api
          /\ path = "x402" => H(r)'.sig = h.sig
      BY <1>1 DEF Replayed, H
    <2>6. QED
      BY <1>7, <2>1, <2>2, <2>3, <2>4, <2>5 DEF SameOrigin, Paid
  <1>9. answer'[r].from = o /\ conn'[r].pc = "done" /\ job'[r].path = path
    BY <1>1, <1>2 DEF Replayed
  <1>10. QED
    BY <1>4, <1>5, <1>6, <1>7, <1>8, <1>9 DEF HostedReplay

LEMMA HostedReplaysStay ==
    ASSUME HostedInv, NEW r \in Req, HostedStep(r), NEW u \in Req \ {r}
    PROVE  HostedRequest(u)' /\ HostedReplay(u)'
  <1>1. /\ runtime' = runtime /\ conn'[u] = conn[u] /\ job'[u] = job[u]
        /\ bill'[u] = bill[u] /\ answer'[u] = answer[u]
    BY HostedOthers DEF HostedInv
  <1>2. HostedRequest(u)'
    BY <1>1 DEF HostedInv, HostedRequest, Paid, H
  <1>3. ASSUME answer[u].code = "replayed"
        PROVE  HostedReplay(u)'
    <2>1. PICK o : o = answer[u].from
      OBVIOUS
    <2>2. /\ o \in Req \ {u} /\ conn[u].pc = "done" /\ SameOrigin(u, o)
          /\ job[u].path \in {"api_key", "x402"}
          /\ Outcome(o, Mine(u), H(u).body)
      BY <1>3, <2>1 DEF HostedInv, HostedReplay
    <2>3. PICK s, fp : s = Mine(u) /\ fp = H(u).body
      OBVIOUS
    <2>4. Outcome(o, s, fp)'
      BY <2>2, <2>3, OutcomeStays DEF HostedInv
    <2>5. Mine(u)' = s /\ H(u)'.body = fp
      BY <1>1, <2>3 DEF Mine, H
    <2>6. job'[o] = job[o]
      BY <2>2, HostedFinal DEF HostedInv, Outcome
    <2>7. SameOrigin(u, o)'
      BY <1>1, <2>2, <2>6 DEF SameOrigin, Paid, H
    <2>8. QED
      BY <1>1, <2>1, <2>2, <2>4, <2>5, <2>7 DEF HostedReplay
  <1>4. answer[u].code # "replayed" => HostedReplay(u)'
    BY <1>1 DEF HostedReplay
  <1>5. QED
    BY <1>2, <1>3, <1>4

(* Which runtimes there are.                                               *)
Runtimes == [mode : Modes \cup {"down", "refused"},
             parts : SUBSET {"access", "payments", "results", "claims", "sources"},
             ready : {"unavailable", "not_configured", "ready"}]

(* Every request's step keeps the invariant.                               *)
LEMMA HostedStepKeeps ==
    ASSUME HostedInv, NEW r \in Req, HostedStep(r)
    PROVE  HostedInv'
  <1>a. TypeOK /\ HostedWellTyped /\ HostedParts /\ HostedRequest(r) /\ runtime \in Runtimes
    BY HostedTypes DEF HostedInv, TypeOK, Runtimes
  <1>b. runtime' = runtime
    BY <1>a, HostedOthers
  <1>1. TypeOK'
    <2>1. HostedWellTyped' /\ ledger' \in [Slot -> Entry]
      BY <1>a, HostedTypedStep, HostedLedgerTyped DEF TypeOK
    <2>2. used' \subseteq Proof
      <3>1. Paid(r) => H(r).sig \in Proof
        BY <1>a DEF Paid, H, HostedRequest, HostedWellTyped, Jobs, Headers, NoHead
      <3>2. used' = used \/ (Paid(r) /\ used' = used \cup {H(r).sig})
        BY DEF HostedStep, Request, Receive, Disconnect, Enter, Unreadable,
           NotConfigured, Free, OnApiKey, NoApiKey, OnPayment, AssertFails,
           PaymentRequired, Stay, Fail, Serve, Settle, Cancel
      <3>3. QED
        BY <1>a, <3>1, <3>2 DEF TypeOK
    <2>3. QED
      BY <1>a, <1>b, <2>1, <2>2
      DEF TypeOK, HostedWellTyped, Conn, Jobs, Bills, Told, Runtimes
  <1>2. HostedParts'
    <2>1. Serving
      BY <1>a, HostedServes
    <2>2. QED
      BY <1>a, <1>b, <2>1 DEF HostedParts, Serving, Has
  <1>3. HostedRequest(r)'
    BY <1>a, HostedRequestStep
  <1>4. HostedReplay(r)'
    <2>1. answer'[r].code # "replayed" => HostedReplay(r)'
      BY DEF HostedReplay
    <2>2. QED
      BY <2>1, HostedReplayStep
  <1>5. HostedLedger'
    <2>1. SUFFICES ASSUME NEW s \in Slot, ledger'[s].state = "complete"
                   PROVE  Outcome(ledger[s].resp, s, ledger[s].fp)'
      BY DEF HostedLedger, Slot
    <2>2. CASE ledger'[s] = ledger[s]
      <3>1. PICK o, fp : o = ledger[s].resp /\ fp = ledger[s].fp
        OBVIOUS
      <3>2. Outcome(o, s, fp)
        BY <2>1, <2>2, <3>1 DEF HostedInv, HostedLedger
      <3>3. Outcome(o, s, fp)'
        BY <1>a, <3>2, OutcomeStays
      <3>4. QED
        BY <2>2, <3>1, <3>3
    <2>3. CASE Published(r, s)
      <3>1. Mine(r)' = s /\ H(r)'.body = ledger'[s].fp
        BY <2>3 DEF Published, Mine, H
      <3>2. Outcome(r, s, ledger[s].fp)'
        BY <2>3, <3>1 DEF Published, Outcome
      <3>3. QED
        BY <2>3, <3>2 DEF Published
    <2>4. QED
      BY <1>a, <2>1, <2>2, <2>3, HostedPublish
  <1>6. QED
    BY <1>1, <1>2, <1>3, <1>4, <1>5, HostedReplaysStay DEF HostedInv
-----------------------------------------------------------------------------
(* The runtime, the requests and the ledgers stay in agreement.            *)
THEOREM HostedInvariant == Spec => []HostedInv
  <1> USE HostedAssumption
  <1>1. Init => HostedInv
    <2> SUFFICES ASSUME Init PROVE HostedInv
      OBVIOUS
    <2>1. TypeOK
      <3>1. HostedWellTyped
        BY DEF Init, HostedWellTyped, NoConn, Conn, NoJob, Jobs, Bills, Told, Codes
      <3>2. ledger \in [Slot -> Entry]
        BY HostedEntries DEF Init
      <3>3. QED
        BY <3>1, <3>2
        DEF Init, Down, TypeOK, HostedWellTyped, Conn, Jobs, Bills, Told
    <2>2. HostedParts
      BY DEF Init, HostedParts, Down, Serving, Modes, NoConn, NoJob
    <2>3. \A r \in Req : HostedRequest(r) /\ HostedReplay(r)
      BY DEF Init, HostedRequest, HostedReplay, NoConn, NoJob
    <2>4. HostedLedger
      BY HostedEntries DEF Init, HostedLedger
    <2>5. QED
      BY <2>1, <2>2, <2>3, <2>4 DEF HostedInv
  <1>2. HostedInv /\ [Next]_vars => HostedInv'
    <2> SUFFICES ASSUME HostedInv, [Next]_vars PROVE HostedInv'
      OBVIOUS
    <2>1. CASE \E r \in Req : HostedStep(r)
      BY <2>1, HostedStepKeeps
    <2>2. ASSUME NEW e \in Env, NEW identity \in {"verified", "local", "invalid"},
                 Boot(e, identity)
          PROVE  HostedInv'
      <3>1. /\ UNCHANGED <<conn, job, ledger, used, bill, answer>>
            /\ runtime.mode \notin Modes
        BY <2>2 DEF Boot, Modes
      <3>2. /\ runtime' \in Runtimes
            /\ runtime'.mode \in Modes =>
                  /\ Accepts(e) /\ runtime'.mode = e.mode /\ runtime'.parts = Parts(e)
                  /\ runtime'.ready = Ready(e.mode, identity)
        <4>1. CASE Accepts(e) /\ AccessBuilds(e)
          <5>1. runtime' = [mode |-> e.mode, parts |-> Parts(e),
                            ready |-> Ready(e.mode, identity)]
            BY <2>2, <4>1 DEF Boot
          <5>2. e.mode \in Modes
            BY <4>1 DEF Accepts, Parses, Env
          <5>3. Parts(e) \subseteq {"access", "payments", "results", "claims", "sources"}
            BY DEF Parts
          <5>4. Ready(e.mode, identity) \in {"unavailable", "not_configured", "ready"}
            BY <2>2 DEF Ready
          <5>5. QED
            BY <4>1, <5>1, <5>2, <5>3, <5>4 DEF Runtimes
        <4>2. CASE ~(Accepts(e) /\ AccessBuilds(e))
          <5>1. runtime' = Down("refused")
            BY <2>2, <4>2 DEF Boot
          <5>2. QED
            BY <5>1 DEF Down, Runtimes, Modes
        <4>3. QED
          BY <4>1, <4>2
      <3>3. TypeOK'
        BY <3>1, <3>2 DEF HostedInv, TypeOK, Runtimes
      <3>4. \A r \in Req : conn[r].pc = "idle" /\ job[r].path = None /\ answer[r].code = "none"
        BY <3>1 DEF HostedInv, HostedParts, Serving
      <3>5. HostedParts'
        <4>1. ~Serving' => HostedParts'
          BY <3>1, <3>4 DEF HostedParts
        <4>2. ASSUME Serving'
              PROVE  HostedParts'
          <5>1. /\ Accepts(e) /\ runtime'.mode = e.mode /\ runtime'.parts = Parts(e)
                /\ runtime'.ready = Ready(e.mode, identity)
            BY <3>2, <4>2 DEF Serving
          <5>2. UsesApiKeys(e.mode) => "access" \in Parts(e)
            BY DEF Parts
          <5>3. UsesX402(e.mode) =>
                   \A part \in {"payments", "results", "claims", "sources"} : part \in Parts(e)
            BY <5>1 DEF Accepts, Parts
          <5>4. e.mode = "disabled" => Ready(e.mode, identity) # "ready"
            BY DEF Ready
          <5>5. QED
            BY <4>2, <5>1, <5>2, <5>3, <5>4 DEF HostedParts, Has
        <4>3. QED
          BY <4>1, <4>2
      <3>6. \A r \in Req : HostedRequest(r)' /\ HostedReplay(r)'
        BY <3>1, <3>4 DEF HostedInv, HostedRequest, HostedReplay
      <3>7. HostedLedger'
        BY <3>1 DEF HostedInv, HostedLedger, Outcome, Mine, H, Slot
      <3>8. QED
        BY <3>3, <3>5, <3>6, <3>7 DEF HostedInv
    <2>3. ASSUME NEW s \in Slot, Expire(s)
          PROVE  HostedInv'
      <3>1. /\ UNCHANGED <<runtime, conn, job, used, bill, answer>>
            /\ ledger' = [ledger EXCEPT ![s] = Absent]
        BY <2>3 DEF Expire
      <3>2. ledger' \in [Slot -> Entry]
        BY <3>1, HostedEntries DEF HostedInv, TypeOK
      <3>3. TypeOK'
        BY <3>1, <3>2 DEF HostedInv, TypeOK
      <3>4. HostedParts' /\ \A r \in Req : HostedRequest(r)' /\ HostedReplay(r)'
        BY <3>1 DEF HostedInv, HostedParts, Serving, Has, HostedRequest, HostedReplay, Paid, H,
           Outcome, Mine, SameOrigin
      <3>5. HostedLedger'
        BY <3>1, HostedEntries DEF HostedInv, TypeOK, HostedLedger, Outcome, Mine, H
      <3>6. QED
        BY <3>3, <3>4, <3>5 DEF HostedInv
    <2>4. CASE UNCHANGED vars
      BY <2>4 DEF vars, HostedInv, TypeOK, HostedParts, Serving, Has, HostedRequest,
         HostedReplay, HostedLedger, Paid, H, Outcome, Mine, SameOrigin
    <2>5. \A commit \in Ids, release \in Ids, railway \in BOOLEAN :
             Identity(commit, release, railway) \in {"verified", "local", "invalid"}
      BY DEF Identity
    <2>6. QED
      BY <2>1, <2>2, <2>3, <2>4, <2>5 DEF Next, HostedStep, Finished
  <1>3. QED
    BY <1>1, <1>2, PTL DEF Spec

(* No accepted configuration lets an assertion of the handler fail, and a  *)
(* ready process does not say it is not configured.                        *)
THEOREM ConfigurationsServe == Spec => []ConfigurationServes
  <1>1. HostedInv => ConfigurationServes
    BY DEF HostedInv, HostedRequest, ConfigurationServes
  <1>2. QED
    BY <1>1, HostedInvariant, PTL

(* What is served was charged once, and what is replayed was earned by a   *)
(* request of the same origin.                                             *)
THEOREM EveryVerdictIsEarned == Spec => []VerdictsAreEarned
  <1>1. HostedInv => VerdictsAreEarned
    <2> SUFFICES ASSUME HostedInv, NEW r \in Req PROVE Charged(r) <= 1 /\ Earned(r)
      BY DEF VerdictsAreEarned
    <2>1. HostedRequest(r) /\ HostedReplay(r) /\ job[r] \in Jobs /\ bill[r] \in Bills
      BY HostedTypes DEF HostedInv, HostedWellTyped
    <2>2. Charged(r) <= 1
      BY <2>1 DEF HostedRequest, Charged, Jobs
    <2>3. answer[r].code = "served" =>
             Charged(r) = (IF runtime.mode = "open" THEN 0 ELSE 1)
      BY <2>1 DEF HostedRequest, Charged, Jobs, Paid, UsesApiKeys, UsesX402
    <2>4. answer[r].code = "replayed" =>
             /\ answer[r].from \in Req \ {r}
             /\ SameOrigin(r, answer[r].from)
             /\ answer[answer[r].from].code \in {"served", "payment_failed"}
      BY <2>1 DEF HostedReplay, Outcome
    <2>5. QED
      BY <2>1, <2>2, <2>3, <2>4 DEF HostedRequest, Earned
  <1>2. QED
    BY <1>1, HostedInvariant, PTL

(* A handler at work has the whole body, and no more than the limit.       *)
THEOREM BodiesAreWhole == Spec => []BodyWhole
  <1>1. HostedInv => BodyWhole
    BY HostedTypes DEF HostedInv, HostedRequest, BodyWhole
  <1>2. QED
    BY <1>1, HostedInvariant, PTL
-----------------------------------------------------------------------------
(* Watch.  What a run knows of a descriptor: its copy of the baselines is  *)
(* the history's until it records a baseline of its own, and while nothing *)
(* failed the descriptors that it compared have not drifted far.           *)
WatchNotes(d) ==
    /\ d \in run.todo => run.status[d] = "none"
    /\ d \in run.named \ run.todo => run.status[d] # "none"
    /\ run.status[d] \in {"OK", "DRIFT"} /\ ~run.failed => NoFailingDrift(d)
    /\ run.status[d] = "OK" => NoDrift(d)
WatchCopy(d) ==
    IF run.status[d] = "BASELINE"
    THEN run.state[d] = run.live[d] /\ (run.init \/ recorded[d] = None)
    ELSE run.state[d] = recorded[d]

WatchInv ==
    /\ WatchTypeOK
    /\ file.kind = "json" => file.base = recorded
    /\ file.kind = "absent" => file.base = NoBaselines /\ recorded = NoBaselines
    /\ run.pc # "idle" => \A d \in Descriptor : WatchNotes(d)
    /\ run.pc \in {"loop", "write"} => \A d \in Descriptor : WatchCopy(d)
    /\ run.pc = "loop" => file.kind # "torn"
    /\ run.pc \in {"write", "exited"} => run.todo = {}
    /\ run.pc = "exited" =>
          /\ file.kind = "json" /\ (run.exit = 0 => ~run.failed)
          /\ \A d \in Descriptor : run.status[d] = "BASELINE" => recorded[d] = run.live[d]

(* What examining one descriptor notes, and that it leaves the others'     *)
(* notes alone.                                                            *)
LEMMA NoteForms ==
    ASSUME run \in Run, NEW d \in Descriptor, NEW i \in Code \cup {None},
           NEW live \in Baseline \cup {None}, NEW status \in Statuses,
           NEW n, n = Note(d, i, live, status)
    PROVE  /\ n \in Run
           /\ n.pc = run.pc /\ n.init = run.init /\ n.named = run.named
           /\ n.state = run.state /\ n.failed = run.failed
           /\ n.todo = run.todo \ {d}
           /\ n.status = [run.status EXCEPT ![d] = status]
           /\ n.live = [run.live EXCEPT ![d] = live]
  <1>1. /\ run.looked \in [Descriptor -> Code \cup {None}]
        /\ run.live \in [Descriptor -> Baseline \cup {None}]
        /\ run.status \in [Descriptor -> Statuses]
        /\ run.todo \in SUBSET Descriptor
    BY DEF Run, Baselines
  <1>2. /\ [run.looked EXCEPT ![d] = i] \in [Descriptor -> Code \cup {None}]
        /\ [run.live EXCEPT ![d] = live] \in [Descriptor -> Baseline \cup {None}]
        /\ [run.status EXCEPT ![d] = status] \in [Descriptor -> Statuses]
        /\ run.todo \ {d} \in SUBSET Descriptor
    BY <1>1
  <1>3. PICK todo, looked, lives, statuses :
           /\ todo = run.todo \ {d} /\ looked = [run.looked EXCEPT ![d] = i]
           /\ lives = [run.live EXCEPT ![d] = live]
           /\ statuses = [run.status EXCEPT ![d] = status]
    OBVIOUS
  <1>4. Note(d, i, live, status) =
           [run EXCEPT !.todo = todo, !.looked = looked, !.live = lives,
                       !.status = statuses]
    BY <1>3 DEF Note, Run
  <1>5. [run EXCEPT !.todo = todo, !.looked = looked, !.live = lives,
                    !.status = statuses] \in Run
    BY <1>2, <1>3 DEF Run, Baselines
  <1>6. QED
    BY <1>3, <1>4, <1>5 DEF Run

(* What can be had of a contract is an implementation and its ABI.         *)
LEMMA LiveForms ==
    ASSUME WatchTypeOK, NEW d \in Descriptor, NEW i \in Lookups(d, run.key)
    PROVE  /\ i \in Code \cup {None}
           /\ LiveState(d, i, run.key) \in Baseline \cup {None}
  <1>1. i \in Code \cup {None}
    BY WatchAssumption DEF WatchTypeOK, Lookups
  <1>2. Target(d, i) \in Code
    BY <1>1, WatchAssumption DEF Target
  <1>3. QED
    BY <1>1, <1>2, WatchAssumption DEF LiveState, Baseline

(* Events that do not fail the run leave no uncovered function and no      *)
(* other implementation than the recorded one; no events at all, no other  *)
(* ABI and no stale entry either.                                          *)
LEMMA QuietEvents ==
    ASSUME NEW base \in Baseline, NEW live \in Baseline, NEW covered
    PROVE  LET events == Events(base, live, covered) IN
           /\ ~Failing(events) =>
                 /\ Signable[live.abi] \subseteq covered
                 /\ (base.impl # None /\ live.impl # None) => base.impl = live.impl
           /\ events = {} =>
                 /\ live.abi = base.abi
                 /\ \A f : f \in Signable[live.abi] <=> f \in covered
  <1>1. DEFINE found ==
          {k \in {"IMPL_CHANGED", "NEW_UNCOVERED", "STALE_ENTRY"} :
             CASE k = "IMPL_CHANGED"  -> /\ base.impl # None /\ live.impl # None
                                         /\ base.impl # live.impl
               [] k = "NEW_UNCOVERED" -> Signable[live.abi] \ covered # {}
               [] k = "STALE_ENTRY"   -> covered \ Signable[live.abi] # {}}
  <1>2. base.impl # None /\ live.impl # None /\ base.impl # live.impl
           => "IMPL_CHANGED" \in found
    OBVIOUS
  <1>3. Signable[live.abi] \ covered # {} => "NEW_UNCOVERED" \in found
    OBVIOUS
  <1>4. covered \ Signable[live.abi] # {} => "STALE_ENTRY" \in found
    OBVIOUS
  <1>5. Events(base, live, covered) =
           IF found = {} /\ base.abi # live.abi THEN {"ABI_TOUCHED"} ELSE found
    BY DEF Events
  <1> HIDE DEF found
  <1>6. ASSUME ~Failing(Events(base, live, covered))
        PROVE  "IMPL_CHANGED" \notin found /\ "NEW_UNCOVERED" \notin found
    BY <1>5, <1>6 DEF Failing
  <1>7. ASSUME Events(base, live, covered) = {}
        PROVE  found = {} /\ live.abi = base.abi
    BY <1>5, <1>7
  <1>8. QED
    BY <1>2, <1>3, <1>4, <1>6, <1>7

(* One turn of a run's loop.                                               *)
LEMMA ExamineKeeps ==
    ASSUME WatchInv, NEW d \in Descriptor, NEW i \in Lookups(d, run.key), Examine(d, i)
    PROVE  WatchInv'
  <1>1. PICK live : live = LiveState(d, i, run.key)
    OBVIOUS
  <1>2. /\ run.pc = "loop" /\ d \in run.todo /\ UNCHANGED <<impl, file, recorded>>
        /\ Unresolvable(d, i, live) \/ Record(d, i, live) \/ Compare(d, i, live)
    BY <1>1 DEF Examine
  <1>3. /\ WatchTypeOK /\ run \in Run /\ recorded \in Baselines
        /\ i \in Code \cup {None} /\ live \in Baseline \cup {None}
    BY <1>1, LiveForms DEF WatchInv, WatchTypeOK
  <1>4. /\ \A e \in Descriptor : WatchNotes(e) /\ WatchCopy(e)
        /\ run.status[d] = "none" /\ run.state[d] = recorded[d]
    <2>1. \A e \in Descriptor : WatchNotes(e) /\ WatchCopy(e)
      BY <1>2 DEF WatchInv
    <2>2. QED
      BY <1>2, <2>1 DEF WatchNotes, WatchCopy
  <1>5. ASSUME NEW status \in Statuses \ {"none"}, NEW state, NEW failed,
               run'.todo = run.todo \ {d}, run'.pc = "loop",
               run'.status = [run.status EXCEPT ![d] = status],
               run'.live = [run.live EXCEPT ![d] = live],
               run'.state = state, run'.failed = failed,
               run'.named = run.named, run'.init = run.init, run' \in Run,
               \A e \in Descriptor \ {d} : state[e] = run.state[e],
               ~failed => ~run.failed,
               status \in {"OK", "DRIFT"} /\ ~failed => NoFailingDrift(d)',
               status = "OK" => NoDrift(d)',
               WatchCopy(d)'
        PROVE  WatchInv'
    <2>1. /\ \A e \in Descriptor \ {d} : /\ run'.status[e] = run.status[e]
                                         /\ run'.live[e] = run.live[e]
          /\ run'.status[d] = status
      BY <1>3, <1>5 DEF Run, Baselines
    <2>2. \A e \in Descriptor : WatchNotes(e)'
      <3>1. ASSUME NEW e \in Descriptor \ {d}
            PROVE  WatchNotes(e)'
        <4>1. /\ NoFailingDrift(e) => NoFailingDrift(e)'
              /\ NoDrift(e) => NoDrift(e)'
          BY <1>2, <2>1 DEF NoFailingDrift, NoDrift
        <4>2. QED
          BY <1>4, <1>5, <2>1, <4>1 DEF WatchNotes
      <3>2. WatchNotes(d)'
        BY <1>5, <2>1 DEF WatchNotes
      <3>3. QED
        BY <3>1, <3>2
    <2>3. \A e \in Descriptor : WatchCopy(e)'
      <3>1. ASSUME NEW e \in Descriptor \ {d}
            PROVE  WatchCopy(e)'
        BY <1>2, <1>4, <1>5, <2>1 DEF WatchCopy
      <3>2. QED
        BY <1>5, <3>1
    <2>4. WatchTypeOK'
      BY <1>2, <1>3, <1>5 DEF WatchTypeOK
    <2>5. QED
      BY <1>2, <1>5, <2>2, <2>3, <2>4 DEF WatchInv
  <1>6. CASE Unresolvable(d, i, live)
    <2>1. PICK n : n = Note(d, i, live, "UNRESOLVABLE")
      OBVIOUS
    <2>2. /\ n \in Run
          /\ n.pc = run.pc /\ n.init = run.init /\ n.named = run.named
          /\ n.state = run.state /\ n.failed = run.failed
          /\ n.todo = run.todo \ {d}
          /\ n.status = [run.status EXCEPT ![d] = "UNRESOLVABLE"]
          /\ n.live = [run.live EXCEPT ![d] = live]
      <3>1. "UNRESOLVABLE" \in Statuses
        BY DEF Statuses
      <3>2. QED
        BY <1>3, <2>1, <3>1, NoteForms
    <2>3. run' = n
      BY <1>6, <2>1 DEF Unresolvable
    <2>4. WatchCopy(d)'
      BY <1>2, <1>3, <1>4, <2>2, <2>3 DEF WatchCopy, Run
    <2>5. QED
      BY <1>2, <1>5, <2>2, <2>3, <2>4 DEF Statuses
  <1>7. CASE Record(d, i, live)
    <2>1. PICK n : n = Note(d, i, live, "BASELINE")
      OBVIOUS
    <2>2. /\ n \in Run
          /\ n.pc = run.pc /\ n.init = run.init /\ n.named = run.named
          /\ n.state = run.state /\ n.failed = run.failed
          /\ n.todo = run.todo \ {d}
          /\ n.status = [run.status EXCEPT ![d] = "BASELINE"]
          /\ n.live = [run.live EXCEPT ![d] = live]
      <3>1. "BASELINE" \in Statuses
        BY DEF Statuses
      <3>2. QED
        BY <1>3, <2>1, <3>1, NoteForms
    <2>3. PICK state : state = [run.state EXCEPT ![d] = live]
      OBVIOUS
    <2>4. state \in Baselines /\ state[d] = live /\ \A e \in Descriptor \ {d} : state[e] = run.state[e]
      BY <1>3, <2>3 DEF Baselines, Run
    <2>5. run' = [n EXCEPT !.state = state]
      BY <1>7, <2>1, <2>2, <2>3 DEF Record, Run
    <2>6. /\ run' \in Run
          /\ run'.pc = run.pc /\ run'.init = run.init /\ run'.named = run.named
          /\ run'.state = state /\ run'.failed = run.failed
          /\ run'.todo = run.todo \ {d}
          /\ run'.status = [run.status EXCEPT ![d] = "BASELINE"]
          /\ run'.live = [run.live EXCEPT ![d] = live]
      BY <2>2, <2>4, <2>5 DEF Run
    <2>7. run.init \/ recorded[d] = None
      BY <1>4, <1>7 DEF Record
    <2>8. run'.status[d] = "BASELINE" /\ run'.live[d] = live
      BY <1>3, <2>6 DEF Run, Baselines
    <2>9. WatchCopy(d)'
      BY <1>2, <2>4, <2>6, <2>7, <2>8 DEF WatchCopy
    <2>10. QED
      BY <1>2, <1>5, <2>4, <2>6, <2>9 DEF Statuses
  <1>8. CASE Compare(d, i, live)
    <2>1. PICK status, events :
             /\ status = (IF events = {} THEN "OK" ELSE "DRIFT")
             /\ status \in Statuses /\ status \in {"OK", "DRIFT"}
             /\ events = Events(run.state[d], live, Covered[d])
             /\ run' = [Note(d, i, live, status)
                          EXCEPT !.failed = run.failed \/ Failing(events)]
      BY <1>8 DEF Compare, Statuses
    <2>2. live \in Baseline /\ recorded[d] \in Baseline
      BY <1>3, <1>4, <1>8 DEF Compare, Baselines
    <2>3. PICK n : n = Note(d, i, live, status)
      OBVIOUS
    <2>4. /\ n \in Run
          /\ n.pc = run.pc /\ n.init = run.init /\ n.named = run.named
          /\ n.state = run.state /\ n.failed = run.failed
          /\ n.todo = run.todo \ {d}
          /\ n.status = [run.status EXCEPT ![d] = status]
          /\ n.live = [run.live EXCEPT ![d] = live]
      BY <1>3, <2>1, <2>3, NoteForms
    <2>5. PICK failed \in BOOLEAN : failed = (run.failed \/ Failing(events))
      OBVIOUS
    <2>6. run' = [n EXCEPT !.failed = failed]
      BY <2>1, <2>3, <2>5
    <2>7. /\ run' \in Run
          /\ run'.pc = run.pc /\ run'.init = run.init /\ run'.named = run.named
          /\ run'.state = run.state /\ run'.failed = failed
          /\ run'.todo = run.todo \ {d}
          /\ run'.status = [run.status EXCEPT ![d] = status]
          /\ run'.live = [run.live EXCEPT ![d] = live]
      BY <2>4, <2>6 DEF Run
    <2>8. run'.live[d] = live /\ run'.status[d] = status
      BY <1>3, <2>7 DEF Run, Baselines
    <2>9. ~failed => ~run.failed /\ ~Failing(events)
      BY <2>5
    <2>10. ~failed => NoFailingDrift(d)'
      <3>1. SUFFICES ASSUME ~failed PROVE NoFailingDrift(d)'
        OBVIOUS
      <3>2. /\ Signable[live.abi] \subseteq Covered[d]
            /\ (recorded[d].impl # None /\ live.impl # None) => recorded[d].impl = live.impl
        BY <1>4, <2>1, <2>2, <2>9, <3>1, QuietEvents
      <3>3. QED
        BY <1>2, <2>8, <3>2 DEF NoFailingDrift
    <2>11. status = "OK" => NoDrift(d)'
      <3>1. SUFFICES ASSUME status = "OK" PROVE NoDrift(d)'
        OBVIOUS
      <3>2. events = {}
        BY <2>1, <3>1
      <3>3. /\ live.abi = recorded[d].abi
            /\ \A f : f \in Signable[live.abi] <=> f \in Covered[d]
        BY <1>4, <2>1, <2>2, <3>2, QuietEvents
      <3>4. Signable[live.abi] = Covered[d]
        BY <2>2, <3>3, WatchAssumption DEF Baseline
      <3>5. QED
        BY <1>2, <2>8, <3>3, <3>4 DEF NoDrift
    <2>12. WatchCopy(d)'
      <3>1. run'.status[d] # "BASELINE" /\ run'.state[d] = recorded'[d]
        BY <1>2, <1>4, <2>1, <2>7, <2>8
      <3>2. QED
        BY <3>1 DEF WatchCopy
    <2>13. QED
      BY <1>2, <1>5, <2>1, <2>7, <2>9, <2>10, <2>11, <2>12 DEF Statuses
  <1>9. QED
    BY <1>2, <1>6, <1>7, <1>8

(* What a run's copy holds at the end is what the history takes over.      *)
LEMMA FillKeeps ==
    ASSUME WatchInv, Fill
    PROVE  WatchInv'
  <1>1. /\ run.pc = "write" /\ run \in Run /\ recorded \in Baselines
        /\ \A d \in Descriptor : WatchNotes(d) /\ WatchCopy(d)
    BY DEF WatchInv, Fill, WatchTypeOK
  <1>2. \A d \in Descriptor : recorded'[d] = IF d \in Due THEN run.live[d] ELSE recorded[d]
    BY DEF Fill
  <1>3. recorded' = run.state
    <2>1. \A d \in Descriptor : recorded'[d] = run.state[d]
      BY <1>1, <1>2 DEF WatchCopy, Due
    <2>2. run.state \in [Descriptor -> Baseline \cup {None}]
      BY <1>1 DEF Run, Baselines
    <2>3. recorded' = [d \in Descriptor |-> recorded'[d]]
      BY <1>2 DEF Fill
    <2>4. QED
      BY <2>1, <2>2, <2>3
  <1>4. file' = [kind |-> "json", base |-> run.state]
    BY DEF Fill, Json
  <1>5. PICK exit \in {0, 1} : exit = IF run.failed THEN 1 ELSE 0
    OBVIOUS
  <1>6. run' = [run EXCEPT !.pc = "exited", !.exit = exit]
    BY <1>5 DEF Fill
  <1>7. /\ run' \in Run /\ run'.pc = "exited" /\ run'.exit = exit
        /\ run'.status = run.status /\ run'.live = run.live /\ run'.todo = run.todo
        /\ run'.named = run.named /\ run'.failed = run.failed
    BY <1>1, <1>6 DEF Run
  <1>8. WatchTypeOK'
    BY <1>1, <1>3, <1>4, <1>7 DEF WatchInv, WatchTypeOK, Fill, Run
  <1>9. \A d \in Descriptor : WatchNotes(d)'
    <2>1. SUFFICES ASSUME NEW d \in Descriptor PROVE WatchNotes(d)'
      OBVIOUS
    <2>2. run.status[d] \in {"OK", "DRIFT"} => recorded'[d] = recorded[d]
      BY <1>2 DEF Due
    <2>3. QED
      BY <1>1, <1>7, <2>2 DEF WatchNotes, NoFailingDrift, NoDrift
  <1>10. exit = 0 => ~run.failed
    BY <1>5
  <1>11. \A d \in Descriptor : run'.status[d] = "BASELINE" => recorded'[d] = run'.live[d]
    BY <1>1, <1>3, <1>7 DEF WatchCopy
  <1>12. QED
    BY <1>1, <1>3, <1>4, <1>7, <1>8, <1>9, <1>10, <1>11 DEF WatchInv

(* The state file, the history and a run's copy stay in agreement.         *)
THEOREM WatchInvariant == WatchSpec => []WatchInv
  <1>1. WatchInit => WatchInv
    <2> SUFFICES ASSUME WatchInit PROVE WatchInv
      OBVIOUS
    <2>1. NoBaselines \in Baselines
      BY DEF NoBaselines, Baselines
    <2>2. NoBaselines \in [Descriptor -> Code \cup {None}]
      BY DEF NoBaselines
    <2>3. run \in Run
      BY <2>1, <2>2 DEF WatchInit, Run, Statuses
    <2>4. WatchTypeOK
      BY <2>1, <2>3 DEF WatchInit, WatchTypeOK, NoFile
    <2>5. QED
      BY <2>4 DEF WatchInit, WatchInv, NoFile
  <1>2. WatchInv /\ [WatchNext]_watchVars => WatchInv'
    <2> SUFFICES ASSUME WatchInv, [WatchNext]_watchVars PROVE WatchInv'
      OBVIOUS
    <2>a. run \in Run /\ file.base \in Baselines
      BY DEF WatchInv, WatchTypeOK
    <2>1. ASSUME NEW key \in BOOLEAN, NEW init \in BOOLEAN,
                 NEW named \in SUBSET Descriptor \ {{}}, Start(key, init, named)
          PROVE  WatchInv'
      <3>1. /\ run'.pc = "loop" /\ run'.todo = named /\ run'.named = named
            /\ run'.state = file.base /\ run'.init = init /\ run'.failed = FALSE
            /\ run'.status = [d \in Descriptor |-> "none"]
            /\ file.kind # "torn" /\ UNCHANGED <<impl, file, recorded>>
        BY <2>1 DEF Start
      <3>2. NoBaselines \in Baselines /\ NoBaselines \in [Descriptor -> Code \cup {None}]
        BY DEF NoBaselines, Baselines
      <3>3. run' \in Run
        BY <2>a, <2>1, <3>2 DEF Start, Run, Statuses
      <3>4. file.kind \in {"json", "absent"} /\ file.base = recorded
        BY <3>1 DEF WatchInv, WatchTypeOK
      <3>5. \A d \in Descriptor : WatchNotes(d)' /\ WatchCopy(d)'
        BY <3>1, <3>4 DEF WatchNotes, WatchCopy
      <3>6. WatchTypeOK'
        BY <3>1, <3>3 DEF WatchInv, WatchTypeOK
      <3>7. QED
        BY <3>1, <3>5, <3>6 DEF WatchInv
    <2>2. ASSUME NEW d \in Descriptor, NEW i \in Lookups(d, run.key), Examine(d, i)
          PROVE  WatchInv'
      BY <2>2, ExamineKeeps
    <2>3. CASE Truncate
      <3>1. /\ run.pc = "loop" /\ run.todo = {} /\ run' = [run EXCEPT !.pc = "write"]
            /\ file' = [kind |-> "torn", base |-> NoBaselines] /\ UNCHANGED <<impl, recorded>>
        BY <2>3 DEF Truncate, Torn
      <3>2. /\ run' \in Run /\ run'.pc = "write" /\ run'.todo = run.todo
            /\ run'.named = run.named /\ run'.state = run.state /\ run'.init = run.init
            /\ run'.status = run.status /\ run'.live = run.live /\ run'.failed = run.failed
        BY <2>a, <3>1 DEF Run
      <3>3. \A d \in Descriptor : WatchNotes(d)' /\ WatchCopy(d)'
        BY <3>1, <3>2 DEF WatchInv, WatchNotes, WatchCopy, NoFailingDrift, NoDrift
      <3>4. WatchTypeOK'
        BY <3>1, <3>2 DEF WatchInv, WatchTypeOK, NoBaselines, Baselines
      <3>5. QED
        BY <3>1, <3>2, <3>3, <3>4 DEF WatchInv
    <2>4. CASE Fill
      BY <2>4, FillKeeps
    <2>5. CASE Stop
      <3>1. run' \in Run /\ run'.pc = "idle" /\ UNCHANGED <<impl, file, recorded>>
        BY <2>a, <2>5 DEF Stop, Run
      <3>2. QED
        BY <3>1 DEF WatchInv, WatchTypeOK
    <2>6. ASSUME NEW d \in Descriptor, NEW c \in Impls, Upgrade(d, c)
          PROVE  WatchInv'
      <3>1. WatchTypeOK' /\ UNCHANGED <<file, run, recorded>>
        BY <2>6 DEF Upgrade, WatchInv, WatchTypeOK
      <3>2. QED
        BY <3>1 DEF WatchInv, WatchNotes, WatchCopy, NoFailingDrift, NoDrift
    <2>7. CASE Remove
      <3>1. /\ file.kind = "torn" /\ run.pc # "write" /\ UNCHANGED <<impl, run>>
            /\ file' = [kind |-> "absent", base |-> NoBaselines] /\ recorded' = NoBaselines
        BY <2>7 DEF Remove, NoFile
      <3>2. run.pc = "idle"
        BY <2>a, <3>1 DEF WatchInv, Run
      <3>3. WatchTypeOK'
        BY <3>1 DEF WatchInv, WatchTypeOK, NoBaselines, Baselines
      <3>4. QED
        BY <3>1, <3>2, <3>3 DEF WatchInv
    <2>8. CASE UNCHANGED watchVars
      BY <2>8 DEF watchVars, WatchInv, WatchTypeOK, WatchNotes, WatchCopy, NoFailingDrift, NoDrift
    <2>9. QED
      BY <2>1, <2>2, <2>3, <2>4, <2>5, <2>6, <2>7, <2>8 DEF WatchNext
  <1>3. QED
    BY <1>1, <1>2, PTL DEF WatchSpec

(* What the file holds is the baseline each descriptor should have.        *)
THEOREM BaselinesAreFaithful == WatchSpec => []BaselineFaithful
  <1>1. WatchInv => BaselineFaithful
    BY DEF WatchInv, BaselineFaithful
  <1>2. QED
    BY <1>1, WatchInvariant, PTL

(* What exit code 0 says is so, for any registry and sequence of upgrades. *)
THEOREM QuietRunsAreAccounted == WatchSpec => []QuietIsAccounted
  <1>1. WatchInv => QuietIsAccounted
    <2> SUFFICES ASSUME WatchInv, run.pc = "exited", run.exit = 0, NEW d \in run.named
                 PROVE  /\ run.status[d] # "none"
                        /\ run.status[d] \in {"OK", "DRIFT"} => NoFailingDrift(d)
                        /\ run.status[d] = "OK" => NoDrift(d)
                        /\ run.status[d] = "BASELINE" => recorded[d] = run.live[d]
      BY DEF QuietIsAccounted
    <2>1. /\ d \in Descriptor /\ WatchNotes(d) /\ run.todo = {} /\ ~run.failed
          /\ run.status[d] = "BASELINE" => recorded[d] = run.live[d]
      BY DEF WatchInv, WatchTypeOK, Run
    <2>2. QED
      BY <2>1 DEF WatchNotes
  <1>2. QED
    BY <1>1, WatchInvariant, PTL
-----------------------------------------------------------------------------
(* McpServer.  Where the client and the server stand: the server has all   *)
(* of the lines before at, it is never at the end of a line, it has passed *)
(* over more than MaxLine bytes of a line that it discards, and it stops   *)
(* inside a line only at the end of the stream.                            *)
Replies == [line : Nat, form : {"error", "result", "tool_error"}, own : BOOLEAN]

ClientInv ==
    /\ lines \in Seq(Messages) /\ written \in Nat /\ closed \in BOOLEAN
    /\ lines # <<>> => written \in 1..lines[Len(lines)].size

AtEnd == closed /\ off = Available(at)
ServerInv ==
    /\ at \in 1..Len(lines) + 1 /\ off \in Nat
    /\ pc \in {"read", "discard", "ended"}
    /\ at = Len(lines) + 1 => off = 0
    /\ at \in 1..Len(lines) => off <= Available(at) /\ off < lines[at].size
    /\ \A i \in 1..at - 1 : Complete(i)
    /\ pc = "discard" => at \in 1..Len(lines) /\ off > MaxLine
    /\ pc = "read" /\ off > 0 => AtEnd
    /\ pc = "ended" => AtEnd

(* A line that was read has its reply, if it is to have one; the line at   *)
(* the end of the stream may have one although it was never finished.      *)
Before(r) == r.line < at \/ (r.line = at /\ off > 0 /\ AtEnd /\ pc # "discard")
Said == {out[j] : j \in 1..Len(out)}
OutInv ==
    /\ out \in Seq(Replies)
    /\ InOrder
    /\ \A q \in Said : ReplyFits(q) /\ Before(q)
    /\ \A i \in 1..at - 1 : Answered(i) <=> ~IsQuiet(lines[i])

McpInv == ClientInv /\ ServerInv /\ OutInv

(* What the client wrote, line by line.                                    *)
LEMMA LineForms ==
    ASSUME ClientInv
    PROVE  /\ Len(lines) \in Nat
           /\ \A i \in 1..Len(lines) :
                 /\ lines[i] \in Messages /\ lines[i] \in Message
                 /\ lines[i].size \in Nat \ {0}
                 /\ Available(i) \in Nat /\ Available(i) <= lines[i].size
                 /\ i < Len(lines) => Complete(i)
           /\ Available(Len(lines) + 1) = 0
  <1>1. Len(lines) \in Nat /\ lines \in Seq(Messages)
    BY DEF ClientInv
  <1>2. ASSUME NEW i \in 1..Len(lines)
        PROVE  /\ lines[i] \in Messages /\ lines[i] \in Message
               /\ lines[i].size \in Nat \ {0}
    <2>1. lines[i] \in Messages
      BY <1>1
    <2>2. lines[i] \in Message
      BY <2>1, McpAssumption
    <2>3. QED
      BY <2>1, <2>2 DEF Message
  <1>3. ASSUME NEW i \in 1..Len(lines)
        PROVE  /\ Available(i) \in Nat /\ Available(i) <= lines[i].size
               /\ i < Len(lines) => Complete(i)
    <2>1. CASE i < Len(lines)
      BY <1>1, <1>2, <2>1 DEF Available, Complete
    <2>2. CASE i = Len(lines)
      <3>1. lines # <<>>
        BY <1>1, <2>2
      <3>2. written \in 1..lines[i].size
        BY <2>2, <3>1 DEF ClientInv
      <3>3. Available(i) = written
        BY <1>1, <2>2 DEF Available
      <3>4. QED
        BY <1>2, <2>2, <3>2, <3>3
    <2>3. QED
      BY <1>1, <2>1, <2>2
  <1>4. Available(Len(lines) + 1) = 0
    BY <1>1 DEF Available
  <1>5. QED
    BY <1>1, <1>2, <1>3, <1>4

(* How much the server gets in one read.                                   *)
LEMMA ChunkForms ==
    ASSUME ClientInv, ServerInv, pc # "ended"
    PROVE  /\ Have \in Nat /\ Chunk \in Nat /\ Chunk <= Have
           /\ Chunk <= MaxLine => Chunk = Have
           /\ Chunk > 0 => /\ at \in 1..Len(lines)
                           /\ pc = "read" => off = 0
                           /\ off + Chunk <= Available(at)
           /\ Chunk = 0 => off = Available(at) /\ ~EndsLine
           /\ Chunk = 0 /\ ReadReady => AtEnd
           /\ EndsLine => at \in 1..Len(lines) /\ Complete(at) /\ off + Chunk = lines[at].size
           /\ ReadReady /\ ~EndsLine /\ Chunk <= MaxLine => closed /\ off + Chunk = Available(at)
           /\ at \in 1..Len(lines) /\ ~EndsLine => off + Chunk < lines[at].size
  <1>1. MaxLine \in Nat \ {0}
    BY McpAssumption
  <1>2. Available(at) \in Nat /\ off \in Nat /\ off <= Available(at)
    BY LineForms DEF ServerInv
  <1>3. Have \in Nat /\ Have = Available(at) - off
    BY <1>2 DEF Have
  <1>4. /\ Chunk \in Nat /\ Chunk <= Have
        /\ Chunk <= MaxLine => Chunk = Have
        /\ Have > 0 => Chunk > 0
    BY <1>1, <1>3 DEF Chunk
  <1>5. Chunk > 0 => /\ at \in 1..Len(lines)
                     /\ pc = "read" => off = 0
                     /\ off + Chunk <= Available(at)
    BY <1>2, <1>3, <1>4, LineForms DEF ServerInv, AtEnd
  <1>6. EndsLine => at \in 1..Len(lines) /\ Complete(at) /\ off + Chunk = lines[at].size
    BY DEF EndsLine, Complete
  <1>7. Chunk = 0 => off = Available(at) /\ ~EndsLine
    <2>1. at \in 1..Len(lines) => off < lines[at].size
      BY DEF ServerInv
    <2>2. at \in 1..Len(lines) => lines[at].size \in Nat
      BY LineForms
    <2>3. QED
      BY <1>2, <1>3, <1>4, <1>6, <2>1, <2>2
  <1>8. Chunk = 0 /\ ReadReady => AtEnd
    <2>1. Complete(at) => Available(at) = lines[at].size /\ at \in 1..Len(lines)
      BY DEF Complete
    <2>2. QED
      BY <1>1, <1>2, <1>3, <1>4, <1>7, <2>1 DEF ReadReady, AtEnd, ServerInv
  <1>9. ReadReady /\ ~EndsLine /\ Chunk <= MaxLine => closed /\ off + Chunk = Available(at)
    <2>1. SUFFICES ASSUME ReadReady, ~EndsLine, Chunk <= MaxLine
                   PROVE  closed /\ off + Chunk = Available(at)
      OBVIOUS
    <2>2. Chunk = Have /\ off + Chunk = Available(at) /\ ~(Have > MaxLine)
      BY <1>1, <1>2, <1>3, <1>4, <2>1
    <2>3. ~Complete(at)
      BY <2>1, <2>2 DEF EndsLine, Complete
    <2>4. QED
      BY <1>3, <2>1, <2>2, <2>3 DEF ReadReady
  <1>10. at \in 1..Len(lines) /\ ~EndsLine => off + Chunk < lines[at].size
    <2>1. SUFFICES ASSUME at \in 1..Len(lines), ~EndsLine
                   PROVE  off + Chunk < lines[at].size
      OBVIOUS
    <2>2. off + Chunk <= Available(at) /\ Available(at) <= lines[at].size
          /\ lines[at].size \in Nat
      BY <1>2, <1>3, <1>4, <2>1, LineForms
    <2>3. ~(off + Chunk = lines[at].size)
      BY <1>2, <1>4, <2>1, <2>2 DEF EndsLine, Complete
    <2>4. QED
      BY <1>2, <1>4, <2>2, <2>3
  <1>11. QED
    BY <1>3, <1>4, <1>5, <1>6, <1>7, <1>8, <1>9, <1>10

(* Every reply so far is to a line before the one the server is in.        *)
Earlier == \A q \in Said : q.line < at

LEMMA SaidForms ==
    ASSUME out \in Seq(Replies)
    PROVE  \A q \in Said : q \in Replies /\ q.line \in Nat
  <1>1. Said \subseteq Replies
    BY DEF Said
  <1>2. \A q \in Replies : q.line \in Nat
    BY DEF Replies
  <1>3. QED
    BY <1>1, <1>2

LEMMA EarlierReplies ==
    ASSUME ClientInv, ServerInv, OutInv
    PROVE  /\ ~closed => Earlier
           /\ off = 0 => Earlier
           /\ pc = "discard" => Earlier
  <1>1. SUFFICES ASSUME NEW q \in Said, ~closed \/ off = 0 \/ pc = "discard"
                 PROVE  q.line < at
    BY DEF Earlier
  <1>2. Before(q)
    BY DEF OutInv
  <1>3. QED
    BY <1>1, <1>2 DEF Before, AtEnd, ServerInv

(* What one more reply does to the output.                                 *)
LEMMA OneMoreReply ==
    ASSUME out \in Seq(Replies), InOrder, Earlier, at \in Nat,
           NEW r \in Replies, r.line = at, out' = out \o <<r>>
    PROVE  /\ out' \in Seq(Replies) /\ InOrder'
           /\ Said' = Said \cup {r}
           /\ \A i : Answered(i)' <=> (Answered(i) \/ i = at)
  <1>1. /\ out' \in Seq(Replies) /\ Len(out') = Len(out) + 1 /\ Len(out) \in Nat
        /\ \A j \in 1..Len(out) : out'[j] = out[j]
        /\ out'[Len(out) + 1] = r
    <2>1. <<r>> \in Seq(Replies) /\ Len(<<r>>) = 1 /\ <<r>>[1] = r
      OBVIOUS
    <2>2. QED
      BY <2>1
  <1>2. \A j \in 1..Len(out') : j \in 1..Len(out) \/ j = Len(out) + 1
    BY <1>1
  <1>3. \A j \in 1..Len(out) : out[j].line \in Nat /\ out[j].line < at
    BY SaidForms DEF Earlier, Said
  <1>4. InOrder'
    <2>1. SUFFICES ASSUME NEW j \in 1..Len(out'), NEW k \in 1..Len(out'), j < k
                   PROVE  out'[j].line < out'[k].line
      BY DEF InOrder
    <2>2. j \in 1..Len(out)
      BY <1>1, <1>2, <2>1
    <2>3. CASE k \in 1..Len(out)
      BY <1>1, <2>1, <2>2, <2>3 DEF InOrder
    <2>4. CASE k = Len(out) + 1
      BY <1>1, <1>3, <2>2, <2>4
    <2>5. QED
      BY <1>2, <2>3, <2>4
  <1>5. Said' = Said \cup {r}
    <2>1. \A j \in 1..Len(out) : j \in 1..Len(out')
      BY <1>1
    <2>2. Len(out) + 1 \in 1..Len(out')
      BY <1>1
    <2>3. ASSUME NEW q \in Said' PROVE q \in Said \cup {r}
      BY <1>1, <1>2, <2>3 DEF Said
    <2>4. ASSUME NEW q \in Said PROVE q \in Said'
      BY <1>1, <2>1, <2>4 DEF Said
    <2>5. r \in Said'
      BY <1>1, <2>2 DEF Said
    <2>6. QED
      BY <2>3, <2>4, <2>5
  <1>6. \A i : Answered(i) <=> \E q \in Said : q.line = i
    BY DEF Answered, Said
  <1>7. \A i : Answered(i)' <=> \E q \in Said' : q.line = i
    BY DEF Answered, Said
  <1>8. QED
    BY <1>1, <1>4, <1>5, <1>6, <1>7

(* A reply to the line the server is in, either read to its end or cut off *)
(* by the end of the stream.                                               *)
LEMMA ReplyKeeps ==
    ASSUME McpInv, UNCHANGED client, Earlier,
           NEW r \in Replies, r.line = at, ReplyFits(r), out' = out \o <<r>>,
           \/ at' = at + 1 /\ ~IsQuiet(lines[at])
           \/ at' = at /\ off' > 0 /\ AtEnd' /\ pc' # "discard"
    PROVE  OutInv'
  <1>1. at \in Nat /\ at' \in Nat
    BY DEF McpInv, ServerInv
  <1>2. /\ out' \in Seq(Replies) /\ InOrder' /\ Said' = Said \cup {r}
        /\ \A i : Answered(i)' <=> (Answered(i) \/ i = at)
    BY <1>1, OneMoreReply DEF McpInv, OutInv
  <1>3. ASSUME NEW q, ReplyFits(q) PROVE ReplyFits(q)'
    BY <1>3 DEF ReplyFits, CutOffGarbage, Complete, Available, client
  <1>4. Before(r)'
    BY <1>1 DEF Before
  <1>5. ASSUME NEW q \in Said PROVE ReplyFits(q)' /\ Before(q)'
    <2>1. q.line \in Nat /\ q.line < at /\ ReplyFits(q)
      BY SaidForms DEF McpInv, OutInv, Earlier
    <2>2. Before(q)'
      BY <1>1, <2>1 DEF Before
    <2>3. QED
      BY <1>3, <2>1, <2>2
  <1>6. \A q \in Said' : ReplyFits(q)' /\ Before(q)'
    BY <1>2, <1>3, <1>4, <1>5
  <1>7. \A i \in 1..at' - 1 : Answered(i)' <=> ~IsQuiet(lines'[i])
    <2>1. lines' = lines
      BY DEF client
    <2>2. \A i \in 1..at - 1 : Answered(i) <=> ~IsQuiet(lines[i])
      BY DEF McpInv, OutInv
    <2>3. ASSUME NEW i \in 1..at' - 1
          PROVE  i \in 1..at - 1 \/ (i = at /\ ~IsQuiet(lines[at]))
      <3>1. at' = at => i \in 1..at - 1
        BY <2>3
      <3>2. at' = at + 1 => i \in 1..at - 1 \/ i = at
        BY <1>1, <2>3
      <3>3. QED
        BY <1>1, <3>1, <3>2
    <2>4. ASSUME NEW i \in 1..at' - 1, i \in 1..at - 1
          PROVE  Answered(i)' <=> ~IsQuiet(lines[i])
      <3>1. i # at
        BY <1>1, <2>4
      <3>2. QED
        BY <1>2, <2>2, <2>4, <3>1
    <2>5. QED
      BY <1>2, <2>1, <2>3, <2>4
  <1>8. QED
    BY <1>2, <1>6, <1>7 DEF OutInv

(* A step that writes nothing.                                             *)
LEMMA SilenceKeeps ==
    ASSUME McpInv, UNCHANGED client, out' = out,
           \/ at' = at + 1 /\ Earlier /\ IsQuiet(lines[at])
           \/ at' = at /\ \A q \in Said : Before(q)'
    PROVE  OutInv'
  <1>1. at \in Nat /\ at' \in Nat /\ (at' = at \/ at' = at + 1)
    BY DEF McpInv, ServerInv
  <1>2. out' \in Seq(Replies) /\ InOrder' /\ Said' = Said
    BY DEF McpInv, OutInv, InOrder, Said
  <1>3. \A i : Answered(i)' <=> Answered(i)
    BY DEF Answered
  <1>4. ASSUME NEW q \in Said PROVE ReplyFits(q)'
    <2>1. ReplyFits(q)
      BY DEF McpInv, OutInv
    <2>2. QED
      BY <2>1 DEF ReplyFits, CutOffGarbage, Complete, Available, client
  <1>5. ASSUME NEW q \in Said PROVE Before(q)'
    <2>1. CASE at' = at + 1 /\ Earlier
      BY <1>1, <2>1, SaidForms DEF Before, Earlier, McpInv, OutInv
    <2>2. QED
      BY <2>1
  <1>6. \A i \in 1..at' - 1 : Answered(i)' <=> ~IsQuiet(lines'[i])
    <2>1. lines' = lines
      BY DEF client
    <2>2. \A i \in 1..at - 1 : Answered(i) <=> ~IsQuiet(lines[i])
      BY DEF McpInv, OutInv
    <2>3. ASSUME at' = at + 1, Earlier, IsQuiet(lines[at])
          PROVE  Answered(at) <=> ~IsQuiet(lines[at])
      <3>1. \A j \in 1..Len(out) : out[j].line # at
        BY <1>1, <2>3, SaidForms DEF Earlier, Said, McpInv, OutInv
      <3>2. QED
        BY <2>3, <3>1 DEF Answered
    <2>4. ASSUME NEW i \in 1..at' - 1
          PROVE  Answered(i) <=> ~IsQuiet(lines[i])
      <3>1. CASE at' = at
        BY <2>2, <2>4, <3>1
      <3>2. CASE at' = at + 1
        <4>1. i \in 1..at - 1 \/ i = at
          BY <1>1, <2>4, <3>2
        <4>2. Answered(at) <=> ~IsQuiet(lines[at])
          BY <1>1, <2>3, <3>2
        <4>3. QED
          BY <2>2, <4>1, <4>2
      <3>3. QED
        BY <1>1, <3>1, <3>2
    <2>5. QED
      BY <1>3, <2>1, <2>4
  <1>7. QED
    BY <1>2, <1>4, <1>5, <1>6 DEF OutInv

(* What a message makes the server write.                                  *)
Withheld(m) == \/ m.text = "blank"
               \/ m.text = "object" /\ m.rpc /\ (~m.id \/ m.method = "notifications")

LEMMA HandleForms ==
    ASSUME at \in Nat, NEW m, m.text = "object" => m \in Message,
           m.text \in {"blank", "garbage", "scalar", "object"}
    PROVE  \/ Handle(m) = <<>> /\ Withheld(m)
           \/ \E r \in Replies :
                 /\ Handle(m) = <<r>> /\ r.line = at /\ ~Withheld(m)
                 /\ IsRequest(m) => r.own
                 /\ r.own => m.text = "object" /\ m.id
                 /\ r.form # "error" => IsRequest(m)
  <1>1. m.text = "object" => m.rpc \in BOOLEAN /\ m.id \in BOOLEAN
    BY DEF Message
  <1>2. \A form \in {"error", "result", "tool_error"}, own \in BOOLEAN :
           /\ Reply(form, own) \in Replies /\ Reply(form, own).line = at
           /\ Reply(form, own).own = own /\ Reply(form, own).form = form
    BY DEF Reply, Replies
  <1>3. CASE m.text = "blank"
    BY <1>3 DEF Handle, Withheld
  <1>4. CASE m.text = "garbage"
    <2>1. Handle(m) = <<Reply("error", FALSE)>>
      BY <1>4 DEF Handle
    <2>2. QED
      BY <1>2, <1>4, <2>1 DEF Withheld, IsRequest
  <1>5. CASE m.text = "scalar"
    <2>1. Handle(m) = <<Reply("error", FALSE)>>
      BY <1>5 DEF Handle, Dispatch
    <2>2. QED
      BY <1>2, <1>5, <2>1 DEF Withheld, IsRequest
  <1>6. CASE m.text = "object"
    <2>1. Handle(m) = Dispatch(m)
      BY <1>6 DEF Handle
    <2>2. CASE ~m.rpc
      <3>1. Dispatch(m) = <<Reply("error", m.id)>>
        BY <1>6, <2>2 DEF Dispatch
      <3>2. PICK r : r = Reply("error", m.id)
        OBVIOUS
      <3>3. r \in Replies /\ r.line = at /\ r.own = m.id /\ r.form = "error"
        BY <1>1, <1>2, <1>6, <3>2
      <3>4. ~Withheld(m) /\ ~IsRequest(m) /\ Handle(m) = <<r>>
        BY <1>6, <2>1, <2>2, <3>1, <3>2 DEF Withheld, IsRequest
      <3>5. r.own => m.id
        BY <3>3
      <3>6. QED
        BY <1>6, <3>3, <3>4, <3>5
    <2>3. CASE m.rpc /\ (~m.id \/ m.method = "notifications")
      <3>1. Dispatch(m) = <<>>
        BY <1>6, <2>3 DEF Dispatch
      <3>2. QED
        BY <1>6, <2>1, <2>3, <3>1 DEF Withheld
    <2>4. CASE m.rpc /\ m.id /\ m.method # "notifications"
      <3>1. PICK form : form = CASE m.method \in {"initialize", "tools/list"} -> "result"
                                 [] m.method = "tools/call" -> ToolReply(m.call)
                                 [] OTHER -> "error"
        OBVIOUS
      <3>2. form \in {"error", "result", "tool_error"}
        <4>1. ToolReply(m.call) \in {"error", "result", "tool_error"}
          BY DEF ToolReply
        <4>2. QED
          BY <3>1, <4>1
      <3>3. Dispatch(m) = <<Reply(form, TRUE)>>
        BY <1>6, <2>4, <3>1 DEF Dispatch
      <3>4. IsRequest(m) /\ ~Withheld(m)
        BY <1>6, <2>4 DEF IsRequest, Withheld
      <3>5. QED
        BY <1>2, <1>6, <2>1, <2>4, <3>2, <3>3, <3>4
    <2>5. QED
      BY <2>2, <2>3, <2>4
  <1>7. QED
    BY <1>1, <1>3, <1>4, <1>5, <1>6

(* Where a turn of the server takes it.                                    *)
LEMMA AdvanceKeeps ==
    ASSUME McpInv, pc # "ended", ReadReady, Advance, UNCHANGED client,
           \/ pc' = "discard" /\ ~EndsLine /\ at \in 1..Len(lines) /\ off + Chunk > MaxLine
           \/ pc' = "read" /\ (EndsLine \/ Chunk <= MaxLine)
    PROVE  /\ ClientInv' /\ ServerInv'
           /\ EndsLine => at' = at + 1
           /\ ~EndsLine => at' = at /\ off' = off + Chunk
           /\ ~EndsLine /\ pc' = "read" => AtEnd'
  <1>1. ClientInv' /\ \A i : Available(i)' = Available(i) /\ Complete(i)' = Complete(i)
    BY DEF McpInv, ClientInv, client, Available, Complete
  <1>2. lines' = lines /\ closed' = closed /\ Len(lines) \in Nat
    BY LineForms DEF McpInv, client
  <1>3. /\ at \in 1..Len(lines) + 1 /\ off \in Nat /\ Chunk \in Nat
        /\ \A i \in 1..at - 1 : Complete(i)
    BY ChunkForms DEF McpInv, ServerInv
  <1>4. CASE EndsLine
    <2>1. at' = at + 1 /\ off' = 0 /\ pc' = "read"
      BY <1>4 DEF Advance
    <2>2. at \in 1..Len(lines) /\ Complete(at)
      BY <1>4, ChunkForms DEF McpInv
    <2>3. at' \in 1..Len(lines) + 1 /\ \A i \in 1..at' - 1 : Complete(i)
      BY <1>2, <1>3, <2>1, <2>2
    <2>4. at' \in 1..Len(lines) => 0 <= Available(at') /\ 0 < lines[at'].size
      BY LineForms DEF McpInv
    <2>5. /\ at' \in 1..Len(lines') + 1 /\ off' \in Nat
          /\ at' \in 1..Len(lines') => off' <= Available(at)' /\ off' < lines'[at'].size
          /\ \A i \in 1..at' - 1 : Complete(i)'
      <3>1. Available(at)' = Available(at')
        BY <1>2 DEF Available, client
      <3>2. QED
        BY <1>1, <1>2, <2>1, <2>3, <2>4, <3>1
    <2>6. ServerInv'
      BY <2>1, <2>5 DEF ServerInv
    <2>7. QED
      BY <1>1, <1>4, <2>1, <2>6
  <1>5. CASE ~EndsLine
    <2>1. at' = at /\ off' = off + Chunk
      BY <1>5 DEF Advance
    <2>2. Available(at)' = Available(at)
      BY <1>2, <2>1 DEF Available, client
    <2>3. at \in 1..Len(lines) => off + Chunk <= Available(at) /\ off + Chunk < lines[at].size
      <3>1. at \in 1..Len(lines) => off + Chunk < lines[at].size
        BY <1>5, ChunkForms DEF McpInv
      <3>2. at \in 1..Len(lines) => off <= Available(at)
        BY DEF McpInv, ServerInv
      <3>3. Chunk > 0 => off + Chunk <= Available(at)
        BY ChunkForms DEF McpInv
      <3>4. QED
        BY <1>3, <3>1, <3>2, <3>3
    <2>4. at = Len(lines) + 1 => off + Chunk = 0
      <3>1. Chunk > 0 => at \in 1..Len(lines)
        BY ChunkForms DEF McpInv
      <3>2. at = Len(lines) + 1 => off = 0
        BY DEF McpInv, ServerInv
      <3>3. QED
        BY <1>2, <1>3, <3>1, <3>2
    <2>5. pc' = "read" => AtEnd'
      <3>1. Chunk <= MaxLine => closed /\ off + Chunk = Available(at)
        BY <1>5, ChunkForms DEF McpInv
      <3>2. QED
        BY <1>2, <1>5, <2>1, <2>2, <3>1 DEF AtEnd
    <2>6. /\ at' \in 1..Len(lines') + 1 /\ off' \in Nat
          /\ at' = Len(lines') + 1 => off' = 0
          /\ at' \in 1..Len(lines') => off' <= Available(at)' /\ off' < lines'[at'].size
          /\ \A i \in 1..at' - 1 : Complete(i)'
      BY <1>1, <1>2, <1>3, <2>1, <2>2, <2>3, <2>4
    <2>7. ServerInv'
      BY <1>2, <1>5, <2>1, <2>5, <2>6 DEF ServerInv
    <2>8. QED
      BY <1>1, <1>5, <2>1, <2>5, <2>7
  <1>6. QED
    BY <1>4, <1>5

(* An oversized line is told to its end, by one read or after a discard.   *)
LEMMA OversizedKeeps ==
    ASSUME McpInv, Earlier, UNCHANGED client, at \in 1..Len(lines),
           lines[at].size > MaxLine,
           Write(<<Reply("error", FALSE)>>),
           at' = at + 1 \/ (at' = at /\ off' > 0 /\ AtEnd' /\ pc' # "discard")
    PROVE  OutInv'
  <1>1. PICK r : r = Reply("error", FALSE)
    OBVIOUS
  <1>2. at \in Nat /\ MaxLine \in Nat /\ lines[at].size \in Nat
    BY LineForms, McpAssumption DEF McpInv
  <1>3. /\ r \in Replies /\ r.line = at /\ r.form = "error" /\ ~r.own
        /\ out' = out \o <<r>>
    BY <1>1, <1>2 DEF Reply, Replies, Write
  <1>4. ~(lines[at].size <= MaxLine)
    BY <1>2
  <1>5. ReplyFits(r) /\ ~IsQuiet(lines[at])
    BY <1>3, <1>4 DEF ReplyFits, IsQuiet
  <1>6. QED
    BY <1>3, <1>5, ReplyKeeps

(* One line that fits, or what the end of the stream left of one.          *)
LEMMA LineKeeps ==
    ASSUME McpInv, pc = "read", ReadReady, Line, UNCHANGED client
    PROVE  McpInv'
  <1>1. /\ Chunk \in 1..MaxLine /\ Chunk > 0 /\ Chunk <= MaxLine
        /\ Advance /\ pc' = "read"
    BY McpAssumption DEF Line
  <1>2. /\ at \in 1..Len(lines) /\ off = 0 /\ off + Chunk <= Available(at)
        /\ Chunk \in Nat /\ off + Chunk = Chunk
    BY <1>1, ChunkForms DEF McpInv
  <1>3. /\ ClientInv' /\ ServerInv'
        /\ EndsLine => at' = at + 1
        /\ ~EndsLine => at' = at /\ off' = off + Chunk /\ AtEnd'
    BY <1>1, AdvanceKeeps
  <1>4. Earlier
    BY <1>2, EarlierReplies DEF McpInv
  <1>5. PICK m \in Reading : out' = out \o Handle(m)
    BY DEF Line, Write
  <1>6. /\ at \in Nat /\ lines[at] \in Message /\ lines[at].size \in Nat
        /\ MaxLine \in Nat
    BY <1>2, LineForms, McpAssumption DEF McpInv
  <1>7. /\ EndsLine => Complete(at) /\ Chunk = lines[at].size
        /\ ~EndsLine => Available(at) = Chunk /\ ~Complete(at)
    <2>1. EndsLine => Complete(at) /\ Chunk = lines[at].size
      BY <1>2, ChunkForms DEF McpInv
    <2>2. ~EndsLine => Available(at) = Chunk
      BY <1>1, <1>2, ChunkForms DEF McpInv
    <2>3. ~EndsLine => ~Complete(at)
      BY <1>2, <2>2 DEF EndsLine, Complete
    <2>4. QED
      BY <2>1, <2>2, <2>3
  <1>8. Available(at) = Chunk
    BY <1>7 DEF Complete
  <1>9. at' = at + 1 \/ (at' = at /\ off' > 0 /\ AtEnd' /\ pc' # "discard")
    BY <1>1, <1>2, <1>3
  <1>10. EndsLine => m = lines[at]
    <2>1. lines[at].last < lines[at].size /\ lines[at].last \in Nat
      BY <1>2, <1>6, LineForms, McpAssumption DEF McpInv, Message
    <2>2. EndsLine => Chunk >= lines[at].last
      BY <1>6, <1>7, <2>1
    <2>3. QED
      BY <1>2, <1>5, <2>2 DEF Reading
  <1>11. \/ m = lines[at] \/ m.text \in {"garbage", "blank"}
         \/ m \in Messages /\ CutOffGarbage(at)
    <2>1. CASE Chunk >= lines[at].last
      BY <1>2, <1>5, <2>1 DEF Reading
    <2>2. CASE ~(Chunk >= lines[at].last)
      <3>1. m.text \in {"garbage", "blank"} \/ (m \in Messages /\ lines[at].text = "garbage")
        BY <1>2, <1>5, <2>2 DEF Reading
      <3>2. EndsLine => m = lines[at]
        BY <1>10
      <3>3. QED
        BY <1>7, <3>1, <3>2 DEF CutOffGarbage
    <2>3. QED
      BY <2>1, <2>2
  <1>12. OutInv'
    <2>1. CASE Handle(m) = <<>> /\ Withheld(m)
      <3>1. out' = out
        BY <1>5, <2>1 DEF McpInv, OutInv
      <3>2. EndsLine => IsQuiet(lines[at])
        BY <1>1, <1>6, <1>7, <1>10, <2>1 DEF IsQuiet, Withheld
      <3>3. ~EndsLine => \A q \in Said : Before(q)'
        BY <1>3, <1>4, <1>6, SaidForms DEF Before, Earlier, McpInv, OutInv
      <3>4. QED
        BY <1>3, <1>4, <3>1, <3>2, <3>3, SilenceKeeps
    <2>2. ASSUME NEW r \in Replies,
                 Handle(m) = <<r>>, r.line = at, ~Withheld(m),
                 IsRequest(m) => r.own, r.own => m.text = "object" /\ m.id,
                 r.form # "error" => IsRequest(m)
          PROVE  OutInv'
      <3>1. EndsLine => ~IsQuiet(lines[at])
        BY <1>10, <2>2 DEF IsQuiet, Withheld
      <3>2. /\ at' = at + 1 => ~IsQuiet(lines[at])
            /\ at' = at + 1 \/ (at' = at /\ off' > 0 /\ AtEnd' /\ pc' # "discard")
        BY <1>3, <1>6, <1>9, <3>1
      <3>3. ReplyFits(r)
        <4>1. Available(at) <= MaxLine
          BY <1>1, <1>8
        <4>2. CASE m = lines[at]
          BY <1>2, <2>2, <4>1, <4>2 DEF ReplyFits
        <4>3. CASE m.text = "garbage" \/ m.text = "blank"
          <5>1. ~IsRequest(m) /\ ~r.own /\ r.form = "error"
            BY <2>2, <4>3 DEF IsRequest
          <5>2. m = lines[at] \/ ~Complete(at)
            BY <1>7, <1>10
          <5>3. QED
            BY <1>2, <2>2, <4>2, <5>1, <5>2 DEF ReplyFits
        <4>4. CASE CutOffGarbage(at)
          BY <1>2, <2>2, <4>1, <4>4 DEF ReplyFits, CutOffGarbage
        <4>5. QED
          BY <1>11, <4>2, <4>3, <4>4
      <3>4. QED
        BY <1>4, <1>5, <2>2, <3>2, <3>3, ReplyKeeps
    <2>3. /\ m.text \in {"blank", "garbage", "scalar", "object"}
          /\ m.text = "object" => m \in Message
      BY <1>6, <1>11, McpAssumption DEF Message
    <2>4. QED
      BY <1>6, <2>1, <2>2, <2>3, HandleForms
  <1>13. QED
    BY <1>3, <1>12 DEF McpInv

(* One turn of the loop.                                                   *)
LEMMA ReadKeeps == ASSUME McpInv, Read PROVE McpInv'
  <1>1. pc = "read" /\ ReadReady /\ UNCHANGED client /\ (EndOfFile \/ TooLong \/ Line)
    BY DEF Read
  <1>2. MaxLine \in Nat /\ Chunk \in Nat
    BY <1>1, McpAssumption, ChunkForms DEF McpInv
  <1>3. CASE EndOfFile
    <2>1. Chunk = 0 /\ pc' = "ended" /\ at' = at /\ off' = off /\ out' = out
      BY <1>3 DEF EndOfFile
    <2>2. AtEnd
      BY <1>1, <2>1, ChunkForms DEF McpInv
    <2>3. /\ lines' = lines /\ closed' = closed
          /\ \A i : Available(i)' = Available(i) /\ Complete(i)' = Complete(i)
      BY <1>1 DEF client, Available, Complete
    <2>4. ClientInv' /\ AtEnd' /\ Available(at)' = Available(at)
      BY <1>1, <2>1, <2>2, <2>3 DEF McpInv, ClientInv, client, AtEnd, Available
    <2>5. ServerInv'
      BY <2>1, <2>3, <2>4 DEF McpInv, ServerInv
    <2>6. \A q \in Said : Before(q)'
      <3>1. \A q \in Said : Before(q)
        BY DEF McpInv, OutInv
      <3>2. QED
        BY <2>1, <2>4, <3>1 DEF Before
    <2>7. OutInv'
      BY <1>1, <2>1, <2>6, SilenceKeeps
    <2>8. QED
      BY <2>4, <2>5, <2>7 DEF McpInv
  <1>4. CASE TooLong
    <2>1. Chunk > MaxLine /\ Chunk > 0 /\ Advance
      BY <1>2, <1>4 DEF TooLong
    <2>2. /\ at \in 1..Len(lines) /\ off = 0 /\ off + Chunk = Chunk
          /\ off + Chunk <= Available(at)
      BY <1>1, <1>2, <2>1, ChunkForms DEF McpInv
    <2>3. Earlier
      BY <2>2, EarlierReplies DEF McpInv
    <2>4. CASE EndsLine /\ Write(<<Reply("error", FALSE)>>) /\ pc' = pc
      <3>1. ClientInv' /\ ServerInv' /\ at' = at + 1
        BY <1>1, <2>1, <2>4, AdvanceKeeps
      <3>2. lines[at].size > MaxLine
        BY <1>1, <2>1, <2>2, <2>4, ChunkForms DEF McpInv
      <3>3. OutInv'
        BY <1>1, <2>2, <2>3, <2>4, <3>1, <3>2, OversizedKeeps
      <3>4. QED
        BY <3>1, <3>3 DEF McpInv
    <2>5. CASE ~EndsLine /\ pc' = "discard" /\ out' = out
      <3>1. ClientInv' /\ ServerInv' /\ at' = at
        BY <1>1, <2>1, <2>2, <2>5, AdvanceKeeps
      <3>2. \A q \in Said : Before(q)'
        BY <2>3, <3>1 DEF Before, Earlier
      <3>3. OutInv'
        BY <1>1, <2>5, <3>1, <3>2, SilenceKeeps
      <3>4. QED
        BY <3>1, <3>3 DEF McpInv
    <2>6. QED
      BY <1>4, <2>4, <2>5 DEF TooLong
  <1>5. CASE Line
    BY <1>1, <1>5, LineKeeps
  <1>6. QED
    BY <1>1, <1>3, <1>4, <1>5

(* The inner loop.                                                         *)
LEMMA DiscardKeeps == ASSUME McpInv, Discard PROVE McpInv'
  <1>1. pc = "discard" /\ ReadReady /\ UNCHANGED client /\ Advance
    BY DEF Discard
  <1>2. /\ at \in 1..Len(lines) /\ off > MaxLine /\ off < lines[at].size
        /\ off \in Nat /\ lines[at].size \in Nat /\ MaxLine \in Nat /\ Chunk \in Nat
    BY <1>1, McpAssumption, ChunkForms, LineForms DEF McpInv, ServerInv
  <1>3. Earlier /\ lines[at].size > MaxLine /\ off > 0
    BY <1>1, <1>2, EarlierReplies DEF McpInv
  <1>4. CASE (Chunk = 0 \/ EndsLine) /\ Write(<<Reply("error", FALSE)>>) /\ pc' = "read"
    <2>1. /\ ClientInv' /\ ServerInv'
          /\ EndsLine => at' = at + 1
          /\ ~EndsLine => at' = at /\ off' = off + Chunk /\ AtEnd'
      BY <1>1, <1>2, <1>4, AdvanceKeeps
    <2>2. OutInv'
      BY <1>1, <1>2, <1>3, <1>4, <2>1, OversizedKeeps
    <2>3. QED
      BY <2>1, <2>2 DEF McpInv
  <1>5. CASE ~(Chunk = 0 \/ EndsLine) /\ out' = out /\ pc' = pc
    <2>1. ClientInv' /\ ServerInv' /\ at' = at
      BY <1>1, <1>2, <1>5, AdvanceKeeps
    <2>2. \A q \in Said : Before(q)'
      BY <1>3, <2>1 DEF Before, Earlier
    <2>3. OutInv'
      BY <1>1, <1>5, <2>1, <2>2, SilenceKeeps
    <2>4. QED
      BY <2>1, <2>3 DEF McpInv
  <1>6. QED
    BY <1>4, <1>5 DEF Discard

(* Whatever the client does next, the lines it finished stay as they are.  *)
LEMMA ClientKeeps ==
    ASSUME McpInv, ~closed, UNCHANGED <<at, off, pc, out>>,
           Len(lines') \in Nat, Len(lines) <= Len(lines'),
           \A i \in 1..Len(lines) :
               Complete(i) => /\ lines'[i] = lines[i] /\ Complete(i)'
                              /\ Available(i)' = Available(i)
    PROVE  OutInv'
  <1>1. /\ Earlier /\ at \in Nat /\ at <= Len(lines) + 1 /\ Len(lines) \in Nat
        /\ \A i \in 1..at - 1 : Complete(i)
    BY EarlierReplies, LineForms DEF McpInv, ServerInv
  <1>2. \A i \in 1..at - 1 : /\ i \in 1..Len(lines) /\ lines'[i] = lines[i]
                             /\ Complete(i)' /\ Available(i)' = Available(i)
    BY <1>1
  <1>3. ASSUME NEW q \in Said PROVE ReplyFits(q)' /\ Before(q)'
    <2>1. PICK i : i = q.line
      OBVIOUS
    <2>2. /\ i \in 1..Len(lines) /\ i \in Nat /\ i < at /\ q \in Replies
          /\ ReplyFits(q)
      BY <1>1, <2>1, SaidForms DEF Earlier, McpInv, OutInv, ReplyFits
    <2>3. i \in 1..at - 1
      BY <1>1, <2>2
    <2>4. /\ lines'[i] = lines[i] /\ Available(i)' = Available(i)
          /\ Complete(i) /\ i \in 1..Len(lines')
      BY <1>1, <1>2, <2>2, <2>3
    <2>5. ReplyFits(q)'
      BY <2>1, <2>2, <2>4 DEF ReplyFits, CutOffGarbage
    <2>6. Before(q)'
      BY <2>1, <2>2 DEF Before
    <2>7. QED
      BY <2>5, <2>6
  <1>4. out' \in Seq(Replies) /\ InOrder' /\ Said' = Said
    BY DEF McpInv, OutInv, InOrder, Said
  <1>5. \A i : Answered(i)' <=> Answered(i)
    BY DEF Answered
  <1>6. \A i \in 1..at - 1 : Answered(i) <=> ~IsQuiet(lines[i])
    BY DEF McpInv, OutInv
  <1>7. \A i \in 1..at' - 1 : Answered(i)' <=> ~IsQuiet(lines'[i])
    BY <1>2, <1>5, <1>6
  <1>8. QED
    BY <1>3, <1>4, <1>7 DEF OutInv

(* While the client may still write, the server is inside a line only when *)
(* it discards it.                                                         *)
LEMMA ClientMayWrite ==
    ASSUME McpInv, ~closed
    PROVE  /\ pc # "ended" /\ (pc = "read" => off = 0)
           /\ pc = "discard" => at \in 1..Len(lines) /\ off > MaxLine
           /\ at \in 1..Len(lines) + 1 /\ off \in Nat
           /\ \A i \in 1..at - 1 : Complete(i)
           /\ at = Len(lines) + 1 => off = 0
  BY DEF McpInv, ServerInv, AtEnd

(* What the server needs of a step of the client.                          *)
LEMMA ServerStays ==
    ASSUME McpInv, ~closed, UNCHANGED <<at, off, pc>>,
           Len(lines') \in Nat, Len(lines) <= Len(lines'),
           \A i \in 1..Len(lines) : Complete(i) => Complete(i)',
           NEW a, a = at,
           a \in 1..Len(lines') => off <= Available(a)' /\ off < lines'[a].size
    PROVE  ServerInv'
  <1>1. Len(lines) \in Nat
    BY LineForms DEF McpInv
  <1>2. /\ a \in 1..Len(lines') + 1 /\ off \in Nat
        /\ \A i \in 1..a - 1 : Complete(i)'
        /\ a = Len(lines') + 1 => off = 0
        /\ pc \in {"read", "discard"} /\ (pc = "read" => off = 0)
        /\ pc = "discard" => a \in 1..Len(lines') /\ off > MaxLine
    BY <1>1, ClientMayWrite DEF McpInv, ServerInv
  <1>3. Available(at)' = Available(a)'
    BY DEF Available
  <1>4. QED
    BY <1>2, <1>3 DEF ServerInv

(* The client's three steps.                                               *)
LEMMA BeginKeeps ==
    ASSUME McpInv, NEW m \in Messages, NEW n \in 1..m.size, Begin(m, n)
    PROVE  McpInv'
  <1>1. /\ ~closed /\ lines' = Append(lines, m) /\ written' = n /\ closed' = closed
        /\ UNCHANGED <<at, off, pc, out>>
        /\ lines # <<>> => Complete(Len(lines))
    BY DEF Begin
  <1>2. lines \in Seq(Messages) /\ Len(lines) \in Nat /\ m.size \in Nat \ {0} /\ n \in Nat \ {0}
    BY McpAssumption DEF McpInv, ClientInv, Message
  <1>3. /\ lines' \in Seq(Messages) /\ Len(lines') = Len(lines) + 1
        /\ lines'[Len(lines) + 1] = m
        /\ \A i \in 1..Len(lines) : lines'[i] = lines[i]
    BY <1>1, <1>2
  <1>4. ClientInv'
    BY <1>1, <1>2, <1>3 DEF McpInv, ClientInv
  <1>5. ASSUME NEW i \in 1..Len(lines)
        PROVE  /\ Complete(i) /\ Complete(i)' /\ Available(i)' = Available(i)
               /\ Available(i) = lines[i].size
    <2>1. Complete(i)
      <3>1. i < Len(lines) => Complete(i)
        BY LineForms DEF McpInv
      <3>2. i = Len(lines) => Complete(i)
        BY <1>1, <1>2
      <3>3. QED
        BY <1>2, <3>1, <3>2
    <2>2. Available(i) = lines[i].size
      BY <2>1 DEF Complete
    <2>3. Available(i)' = lines[i].size
      BY <1>2, <1>3 DEF Available
    <2>4. QED
      BY <1>2, <1>3, <2>1, <2>2, <2>3 DEF Complete
  <1>6. ASSUME NEW i, i = Len(lines) + 1 PROVE Available(i)' = n
    BY <1>1, <1>2, <1>3, <1>6 DEF Available
  <1>7. ServerInv'
    <2>1. PICK a : a = at
      OBVIOUS
    <2>2. a \in 1..Len(lines) => off <= Available(a) /\ off < lines[a].size
      BY <2>1 DEF McpInv, ServerInv
    <2>3. CASE a \in 1..Len(lines)
      BY <1>1, <1>2, <1>3, <1>5, <2>1, <2>2, <2>3, ServerStays
    <2>4. CASE a = Len(lines) + 1
      <3>1. off = 0 /\ Available(a)' = n /\ lines'[a] = m
        BY <1>1, <1>3, <1>6, <2>1, <2>4, ClientMayWrite
      <3>2. off <= Available(a)' /\ off < lines'[a].size
        BY <1>2, <3>1
      <3>3. QED
        BY <1>1, <1>2, <1>3, <1>5, <2>1, <3>2, ServerStays
    <2>5. QED
      BY <1>1, <1>2, <2>1, <2>3, <2>4, ClientMayWrite
  <1>8. OutInv'
    BY <1>1, <1>2, <1>3, <1>5, ClientKeeps
  <1>9. QED
    BY <1>4, <1>7, <1>8 DEF McpInv

LEMMA GoOnKeeps ==
    ASSUME McpInv, NEW n \in 1..MaxLine + 1, GoOn(n)
    PROVE  McpInv'
  <1>1. /\ ~closed /\ lines # <<>> /\ written' = written + n /\ lines' = lines
        /\ closed' = closed /\ UNCHANGED <<at, off, pc, out>>
        /\ written + n <= lines[Len(lines)].size
    BY DEF GoOn
  <1>2. /\ lines \in Seq(Messages) /\ Len(lines) \in Nat \ {0} /\ n \in Nat \ {0}
        /\ written \in Nat \ {0} /\ lines[Len(lines)].size \in Nat
    <2>1. lines \in Seq(Messages) /\ written \in Nat /\ written \in 1..lines[Len(lines)].size
      BY <1>1 DEF McpInv, ClientInv
    <2>2. Len(lines) \in Nat \ {0}
      BY <1>1, <2>1
    <2>3. lines[Len(lines)].size \in Nat
      BY <2>2, LineForms DEF McpInv
    <2>4. n \in Nat \ {0}
      BY McpAssumption
    <2>5. QED
      BY <2>1, <2>2, <2>3, <2>4
  <1>3. ClientInv'
    BY <1>1, <1>2 DEF McpInv, ClientInv
  <1>4. ~Complete(Len(lines))
    BY <1>1, <1>2 DEF Complete, Available
  <1>5. ASSUME NEW i \in 1..Len(lines), i # Len(lines)
        PROVE  Available(i)' = Available(i) /\ Complete(i)' = Complete(i)
    BY <1>1, <1>2, <1>5 DEF Available, Complete
  <1>6. ASSUME NEW i, i = Len(lines)
        PROVE  Available(i) = written /\ Available(i)' = written + n
    BY <1>1, <1>2, <1>6 DEF Available
  <1>7. ServerInv'
    <2>1. PICK a : a = at
      OBVIOUS
    <2>2. a \in 1..Len(lines) => off <= Available(a) /\ off < lines[a].size
      BY <2>1 DEF McpInv, ServerInv
    <2>3. off \in Nat
      BY <1>1, ClientMayWrite
    <2>4. a \in 1..Len(lines') => off <= Available(a)' /\ off < lines'[a].size
      BY <1>1, <1>2, <1>5, <1>6, <2>2, <2>3
    <2>5. \A i \in 1..Len(lines) : Complete(i) => Complete(i)'
      BY <1>4, <1>5
    <2>6. QED
      BY <1>1, <1>2, <2>1, <2>4, <2>5, ServerStays
  <1>8. OutInv'
    BY <1>1, <1>2, <1>4, <1>5, ClientKeeps
  <1>9. QED
    BY <1>3, <1>7, <1>8 DEF McpInv

LEMMA CloseKeeps == ASSUME McpInv, Close PROVE McpInv'
  <1>1. ~closed /\ closed' = TRUE /\ UNCHANGED <<lines, written, at, off, pc, out>>
    BY DEF Close
  <1>2. \A i : Available(i)' = Available(i) /\ Complete(i)' = Complete(i)
    BY <1>1 DEF Available, Complete
  <1>3. ClientInv' /\ Len(lines) \in Nat
    BY <1>1, LineForms DEF McpInv, ClientInv
  <1>4. ServerInv'
    <2>1. PICK a : a = at
      OBVIOUS
    <2>2. a \in 1..Len(lines) => off <= Available(a) /\ off < lines[a].size
      BY <2>1 DEF McpInv, ServerInv
    <2>3. QED
      BY <1>1, <1>2, <1>3, <2>1, <2>2, ServerStays
  <1>5. OutInv'
    BY <1>1, <1>2, <1>3, ClientKeeps
  <1>6. QED
    BY <1>3, <1>4, <1>5 DEF McpInv

(* The invariant: the client's lines, where the server stands in them, and *)
(* that the replies so far are exactly those the lines before it call for. *)
THEOREM McpInvariant == McpSpec => []McpInv
  <1>1. McpInit => McpInv
    <2>1. SUFFICES ASSUME McpInit PROVE McpInv
      OBVIOUS
    <2>2. Len(lines) = 0 /\ Len(out) = 0 /\ at = 1 /\ off = 0 /\ pc = "read"
      BY <2>1 DEF McpInit
    <2>3. ClientInv
      <3>1. lines = <<>> /\ written = 0 /\ closed = FALSE
        BY <2>1 DEF McpInit
      <3>2. <<>> \in Seq(Messages)
        OBVIOUS
      <3>3. QED
        BY <3>1, <3>2 DEF ClientInv
    <2>4. ServerInv
      BY <2>2 DEF ServerInv
    <2>5. Said = {} /\ out \in Seq(Replies) /\ InOrder
      BY <2>1, <2>2 DEF McpInit, Said, InOrder
    <2>6. QED
      BY <2>2, <2>3, <2>4, <2>5 DEF McpInv, OutInv
  <1>2. McpInv /\ [McpNext]_mcpVars => McpInv'
    <2> SUFFICES ASSUME McpInv, [McpNext]_mcpVars PROVE McpInv'
      OBVIOUS
    <2>1. CASE \E m \in Messages : \E n \in 1..m.size : Begin(m, n)
      BY <2>1, BeginKeeps
    <2>2. CASE \E n \in 1..MaxLine + 1 : GoOn(n)
      BY <2>2, GoOnKeeps
    <2>3. CASE Close
      BY <2>3, CloseKeeps
    <2>4. CASE Read
      BY <2>4, ReadKeeps
    <2>5. CASE Discard
      BY <2>5, DiscardKeeps
    <2>6. CASE UNCHANGED mcpVars
      <3>1. /\ UNCHANGED client /\ UNCHANGED <<at, off, pc, out>>
            /\ lines' = lines /\ written' = written /\ closed' = closed
        BY <2>6 DEF mcpVars, client
      <3>2. ClientInv' /\ ServerInv'
        BY <3>1 DEF McpInv, ClientInv, ServerInv, AtEnd, Available, Complete
      <3>3. \A q \in Said : Before(q)'
        BY <3>1 DEF McpInv, OutInv, Before, AtEnd, Available
      <3>4. OutInv'
        BY <3>1, <3>3, SilenceKeeps
      <3>5. QED
        BY <3>2, <3>4 DEF McpInv
    <2>7. QED
      BY <2>1, <2>2, <2>3, <2>4, <2>5, <2>6 DEF McpNext, Done
  <1>3. QED
    BY <1>1, <1>2, PTL DEF McpSpec

(* Replies are in the order of the lines, one at most for each; a line the *)
(* server read to its end has one unless nothing answers it; a request's   *)
(* carries its id, and only a request that fits gets a result: main(),     *)
(* _discard and dispatch() with any burst of the client.                   *)
THEOREM RepliesMatchLines == McpSpec => []OneReplyPerLine
  <1>1. McpInv => OneReplyPerLine
    <2> SUFFICES ASSUME McpInv PROVE OneReplyPerLine
      OBVIOUS
    <2>1. InOrder /\ \A j \in 1..Len(out) : ReplyFits(out[j])
      BY DEF McpInv, OutInv, Said
    <2>2. ASSUME NEW i \in 1..Len(lines), ReadOut(i), Complete(i)
          PROVE  Answered(i) <=> ~IsQuiet(lines[i])
      <3>1. /\ at \in 1..Len(lines) + 1 /\ Len(lines) \in Nat
            /\ pc = "ended" => off = Available(at)
            /\ at \in 1..Len(lines) => off < lines[at].size
        BY LineForms DEF McpInv, ServerInv, AtEnd
      <3>2. i < at
        <4>1. SUFFICES ASSUME ~(i < at) PROVE FALSE
          OBVIOUS
        <4>2. pc = "ended" /\ at \in 1..Len(lines) /\ lines[at].size \in Nat
          BY <2>2, <3>1, <4>1, LineForms DEF ReadOut, McpInv
        <4>3. Complete(at)
          BY <2>2, <3>1, <4>1, LineForms DEF McpInv
        <4>4. QED
          BY <3>1, <4>2, <4>3 DEF Complete
      <3>3. QED
        BY <3>1, <3>2 DEF McpInv, OutInv
    <2>3. QED
      BY <2>1, <2>2 DEF OneReplyPerLine, NoneMissed
  <1>2. QED
    BY <1>1, McpInvariant, PTL
=============================================================================
