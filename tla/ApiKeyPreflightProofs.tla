----------------------- MODULE ApiKeyPreflightProofs ------------------------
(***************************************************************************)
(* The API-key path for any number of tenants, requests, keys and entries. *)
(*                                                                         *)
(* StoreInv ties every entry of the shared store to the request behind it: *)
(* a reservation to a handler at work or cancelled, a result to a request  *)
(* that was served.  ReplayBinding and OnlyWorkHolds follow from it;       *)
(* WorkProtected is carried along, because an entry of another request may *)
(* be reserved, evicted, released or published in every step.              *)
(***************************************************************************)
EXTENDS ApiKeyPreflight, FiniteSetTheorems, TLAPS

HeldBy(s, r) ==
    /\ r \in Req /\ pc[r] \in {"source", "cancelled"}
    /\ SlotOf(r) = s /\ store[s].fp = job[r].body
    /\ store[s].expires = job[r].at + ReservationTTL
    /\ now < store[s].expires
ResultOf(s, o) ==
    /\ o \in Req /\ answer[o] = "served"
    /\ SlotOf(o) = s /\ store[s].fp = job[o].body

StoreInv ==
    \A s \in Slot :
        /\ store[s].state = "reserved" => HeldBy(s, store[s].token)
        /\ store[s].state = "complete" => ResultOf(s, store[s].resp)

PhaseInv == \A r \in Req : answer[r] # "none" => pc[r] = "done"

ReplayInv ==
    \A r \in Req : answer[r] = "replayed" =>
        /\ job[r].from \in Req \ {r} /\ answer[job[r].from] = "served"
        /\ SlotOf(job[r].from) = SlotOf(r)
        /\ job[job[r].from].body = job[r].body

Jobs == [tenant : Tenant \cup {None}, key : Key \cup {None},
         body : Body \cup {None}, at : 0..now, from : Req \cup {None}]

Inv == TypeOK /\ StoreInv /\ PhaseInv /\ ReplayInv /\ WorkProtected
-----------------------------------------------------------------------------
(* The store loses completed entries only.                                 *)
Shrinks(L) ==
    /\ L \in [Slot -> Entry]
    /\ \A s \in Slot : \/ L[s] = store[s]
                       \/ store[s].state = "complete" /\ L[s] = Absent

LEMMA AbsentTyped == Absent \in Entry
  BY DEF Absent, Entry, States

LEMMA CompletedTyped ==
    ASSUME NEW e \in Entry, NEW o \in Req, NEW x \in Nat
    PROVE  /\ Completed(e, o, x) \in Entry
           /\ Completed(e, o, x).state = "complete"
           /\ Completed(e, o, x).resp = o /\ Completed(e, o, x).fp = e.fp
  BY DEF Completed, Entry, States

LEMMA EvictionsShrink ==
    ASSUME TypeOK, NEW L \in Evictions
    PROVE  Shrinks(L)
  <1>1. CASE L = store
    BY <1>1 DEF Shrinks, TypeOK
  <1>2. CASE \E s \in CompletedSlots : L = [store EXCEPT ![s] = Absent]
    BY <1>2, AbsentTyped DEF Shrinks, TypeOK, CompletedSlots
  <1>3. QED
    BY <1>1, <1>2 DEF Evictions

(* Taking a token leaves the bucket within its capacity.                   *)
LEMMA BucketTyped ==
    ASSUME TypeOK, NEW t \in Tenant,
           \/ Refilled(t) >= 1 /\ Charge(t)
           \/ SetBucket(t, Refilled(t))
    PROVE  tokens' \in [Tenant -> 0..Capacity] /\ last' \in [Tenant -> 0..now]
  <1>1. Refilled(t) \in 0..Capacity
    <2>1. tokens[t] \in 0..Capacity /\ last[t] \in 0..now /\ now \in Nat
      BY DEF TypeOK
    <2>2. (now - last[t]) * Rate \in Nat
      <3>1. now - last[t] \in Nat
        BY <2>1
      <3>2. QED
        BY <3>1, ApiKeyAssumption
    <2>3. QED
      BY <2>1, <2>2, ApiKeyAssumption DEF Refilled
  <1>2. QED
    BY <1>1, ApiKeyAssumption DEF TypeOK, Charge, SetBucket

(* A request that is answered on arrival, whatever the answer: it was      *)
(* idle, and the store lost at most completed entries.                     *)
LEMMA AnsweredOnArrival ==
    ASSUME Inv, NEW r \in Req, pc[r] = "idle", now' = now,
           NEW ans \in Answers \ {"none", "served"}, Finish(r, ans),
           Shrinks(store'),
           tokens' \in [Tenant -> 0..Capacity], last' \in [Tenant -> 0..now],
           NEW j \in Jobs,
           job' = [job EXCEPT ![r] = j],
           ans = "replayed" => /\ j.from \in Req /\ answer[j.from] = "served"
                               /\ SlotOf(j.from) = <<j.tenant, j.key>>
                               /\ job[j.from].body = j.body
    PROVE  Inv'
  <1>1. /\ \A q \in Req \ {r} : /\ pc'[q] = pc[q] /\ answer'[q] = answer[q]
                                /\ job'[q] = job[q] /\ SlotOf(q)' = SlotOf(q)
        /\ pc'[r] = "done" /\ answer'[r] = ans /\ job'[r] = j
        /\ answer[r] = "none"
    BY DEF Inv, TypeOK, PhaseInv, Finish, SlotOf
  <1>2. TypeOK'
    BY <1>1 DEF Inv, TypeOK, Shrinks, Finish, Jobs
  <1>3. PhaseInv'
    BY <1>1 DEF Inv, PhaseInv
  <1>4. StoreInv'
    <2> SUFFICES ASSUME NEW s \in Slot
                 PROVE  /\ store'[s].state = "reserved" => HeldBy(s, store[s].token)'
                        /\ store'[s].state = "complete" => ResultOf(s, store[s].resp)'
      BY DEF StoreInv
    <2>1. CASE store'[s] = Absent
      BY <2>1 DEF Absent
    <2>2. CASE store'[s] = store[s]
      <3>1. store[s].state = "reserved" => HeldBy(s, store[s].token)'
        BY <1>1, <2>2 DEF Inv, StoreInv, HeldBy
      <3>2. store[s].state = "complete" => ResultOf(s, store[s].resp)'
        BY <1>1, <2>2 DEF Inv, StoreInv, ResultOf
      <3>3. QED
        BY <2>2, <3>1, <3>2
    <2>3. QED
      BY <2>1, <2>2 DEF Shrinks
  <1>5. ReplayInv'
    <2> SUFFICES ASSUME NEW q \in Req, answer'[q] = "replayed"
                 PROVE  /\ job'[q].from \in Req \ {q}
                        /\ answer'[job'[q].from] = "served"
                        /\ SlotOf(job[q].from)' = SlotOf(q)'
                        /\ job'[job'[q].from].body = job'[q].body
      BY DEF ReplayInv
    <2>1. CASE q = r
      BY <1>1, <2>1 DEF SlotOf
    <2>2. CASE q # r
      BY <1>1, <2>2 DEF Inv, ReplayInv, SlotOf
    <2>3. QED
      BY <2>1, <2>2
  <1>6. WorkProtected'
    <2> SUFFICES ASSUME NEW q \in Req, pc'[q] = "source",
                        now < job'[q].at + ReservationTTL
                 PROVE  Owner(q)'
      BY DEF WorkProtected
    <2>1. q # r /\ Owner(q) /\ SlotOf(q) \in Slot
      BY <1>1 DEF Inv, WorkProtected, TypeOK, SlotOf, Slot
    <2>2. store'[SlotOf(q)] = store[SlotOf(q)]
      BY <2>1 DEF Owner, Owns, Shrinks
    <2>3. QED
      BY <1>1, <2>1, <2>2 DEF Owner
  <1>7. QED
    BY <1>2, <1>3, <1>4, <1>5, <1>6 DEF Inv

(* Every answer a request can be given on arrival.                         *)
LEMMA ArriveKeepsInv ==
    ASSUME Inv, NEW r \in Req, NEW t \in Tenant, NEW k \in Key, NEW b \in Body,
           Arrive(r, t, k, b), ~Admit(r, t, k, b)
    PROVE  Inv'
  <1> DEFINE J(kk, from) == [tenant |-> t, key |-> kk, body |-> b, at |-> now,
                             from |-> from]
  <1>1. TypeOK /\ pc[r] = "idle" /\ now' = now /\ now \in Nat
    BY DEF Inv, TypeOK, Arrive
  <1>2. Shrinks(store)
    BY <1>1 DEF Shrinks, TypeOK
  <1>3. ASSUME NEW ans \in {"unauthorized", "quota"}, Finish(r, ans),
               UNCHANGED <<store, job>>,
               tokens' \in [Tenant -> 0..Capacity], last' \in [Tenant -> 0..now]
        PROVE  Inv'
    <2>1. job' = [job EXCEPT ![r] = job[r]] /\ job[r] \in Jobs
      BY <1>1, <1>3 DEF TypeOK, Jobs
    <2>2. Shrinks(store') /\ ans \in Answers \ {"none", "served", "replayed"}
      BY <1>2, <1>3 DEF Answers
    <2>3. QED
      BY <1>1, <1>3, <2>1, <2>2, AnsweredOnArrival
  <1>4. CASE Unauthorized(r, t) \/ OverQuota(r, t, k, b)
    <2>1. tokens' \in [Tenant -> 0..Capacity] /\ last' \in [Tenant -> 0..now]
      BY <1>1, <1>4, BucketTyped DEF Unauthorized, OverQuota, TypeOK
    <2>2. QED
      BY <1>3, <1>4, <2>1 DEF Unauthorized, OverQuota
  <1>5. ASSUME Admitted(t)
        PROVE  tokens' \in [Tenant -> 0..Capacity] /\ last' \in [Tenant -> 0..now]
    BY <1>1, <1>5, BucketTyped DEF Admitted
  <1>6. ASSUME NEW ans \in Answers \ {"none", "served", "replayed"}, Finish(r, ans),
               NEW kk \in Key \cup {None}, Accept(r, t, kk, b, None),
               Admitted(t), Shrinks(store')
        PROVE  Inv'
    <2>1. job' = [job EXCEPT ![r] = J(kk, None)] /\ J(kk, None) \in Jobs
      BY <1>1, <1>6 DEF Accept, Jobs
    <2>2. QED
      BY <1>1, <1>5, <1>6, <2>1, AnsweredOnArrival
  <1>7. CASE InvalidKey(r, t, b) \/ Collide(r, t, k, b) \/ NoRoom(r, t, k, b)
    BY <1>2, <1>6, <1>7 DEF InvalidKey, Collide, NoRoom, Answers
  <1>8. CASE Replay(r, t, k, b)
    <2> DEFINE e == store[<<t, k>>]
    <2>1. <<t, k>> \in Slot /\ e.state = "complete" /\ e.fp = b
      BY <1>1, <1>8 DEF Replay, Found, Lookup, Slot, IsPresent, TypeOK, Entry, States
    <2>2. ResultOf(<<t, k>>, e.resp)
      BY <2>1 DEF Inv, StoreInv
    <2>3. /\ e.resp \in Req /\ answer[e.resp] = "served"
          /\ SlotOf(e.resp) = <<t, k>> /\ job[e.resp].body = b
      BY <2>1, <2>2 DEF ResultOf
    <2>4. job' = [job EXCEPT ![r] = J(k, e.resp)]
      BY <1>8 DEF Replay, Accept
    <2>5. J(k, e.resp) \in Jobs
      BY <1>1, <2>3 DEF Jobs
    <2>6. /\ Finish(r, "replayed") /\ Shrinks(store')
          /\ tokens' \in [Tenant -> 0..Capacity] /\ last' \in [Tenant -> 0..now]
      BY <1>2, <1>5, <1>8 DEF Replay
    <2>7. QED
      BY <1>1, <2>3, <2>4, <2>5, <2>6, AnsweredOnArrival DEF Answers
  <1>9. CASE Reject(r, t, k, b)
    <2>1. Shrinks(store')
      BY <1>1, <1>9, EvictionsShrink DEF Reject
    <2>2. QED
      BY <1>6, <1>9, <2>1 DEF Reject, Answers
  <1>10. QED
    BY <1>4, <1>7, <1>8, <1>9 DEF Arrive

(* A new reservation: its key was free, so no handler at work held it.     *)
LEMMA AdmitKeepsInv ==
    ASSUME Inv, NEW r \in Req, NEW t \in Tenant, NEW k \in Key, NEW b \in Body,
           Arrive(r, t, k, b), Admit(r, t, k, b)
    PROVE  Inv'
  <1> DEFINE e == Reserved(b, r, now + ReservationTTL, 0)
             j == [tenant |-> t, key |-> k, body |-> b, at |-> now, from |-> None]
  <1>1. TypeOK /\ pc[r] = "idle" /\ now' = now /\ now \in Nat
    BY DEF Inv, TypeOK, Arrive
  <1>2. PICK L \in Evictions : store' = [L EXCEPT ![<<t, k>>] = e]
    BY DEF Admit
  <1>3. Shrinks(L) /\ <<t, k>> \in Slot
    BY <1>1, EvictionsShrink DEF Slot
  <1>4. store[<<t, k>>].state = "absent"
    BY <1>1, <1>3 DEF Admit, Found, Lookup, IsPresent, TypeOK, Entry, States
  <1>5. /\ job' = [job EXCEPT ![r] = j] /\ pc' = [pc EXCEPT ![r] = "source"]
        /\ answer' = answer
    BY DEF Admit, Accept
  <1>6. /\ \A q \in Req \ {r} : /\ pc'[q] = pc[q] /\ job'[q] = job[q]
                                 /\ SlotOf(q)' = SlotOf(q)
        /\ pc'[r] = "source" /\ job'[r] = j /\ SlotOf(r)' = <<t, k>>
        /\ answer[r] = "none"
    BY <1>1, <1>5 DEF Inv, TypeOK, PhaseInv, SlotOf
  <1>7. e \in Entry /\ e.state = "reserved" /\ e.token = r /\ e.fp = b
        /\ e.expires = now + ReservationTTL
    BY <1>1, ApiKeyAssumption DEF Reserved, Entry, States
  <1>8. /\ store'[<<t, k>>] = e
        /\ \A s \in Slot \ {<<t, k>>} :
              \/ store'[s] = store[s]
              \/ store[s].state = "complete" /\ store'[s] = Absent
    BY <1>2, <1>3 DEF Shrinks
  <1>9. TypeOK'
    <2>1. store' \in [Slot -> Entry]
      BY <1>2, <1>3, <1>7 DEF Shrinks
    <2>2. tokens' \in [Tenant -> 0..Capacity] /\ last' \in [Tenant -> 0..now]
      BY <1>1, BucketTyped DEF Admit, Admitted
    <2>3. QED
      BY <1>1, <1>5, <2>1, <2>2 DEF TypeOK
  <1>10. PhaseInv'
    BY <1>5, <1>6 DEF Inv, PhaseInv
  <1>11. StoreInv'
    <2> SUFFICES ASSUME NEW s \in Slot
                 PROVE  /\ store'[s].state = "reserved" => HeldBy(s, store[s].token)'
                        /\ store'[s].state = "complete" => ResultOf(s, store[s].resp)'
      BY DEF StoreInv
    <2>1. CASE s = <<t, k>>
      BY <1>1, <1>6, <1>7, <1>8, <2>1, ApiKeyAssumption DEF HeldBy
    <2>2. CASE s # <<t, k>> /\ store'[s] = Absent
      BY <2>2 DEF Absent
    <2>3. CASE s # <<t, k>> /\ store'[s] = store[s]
      <3>1. store[s].state = "reserved" => HeldBy(s, store[s].token)'
        BY <1>1, <1>6, <2>3 DEF Inv, StoreInv, HeldBy
      <3>2. store[s].state = "complete" => ResultOf(s, store[s].resp)'
        BY <1>5, <1>6, <2>3 DEF Inv, StoreInv, ResultOf
      <3>3. QED
        BY <2>3, <3>1, <3>2
    <2>4. QED
      BY <1>8, <2>1, <2>2, <2>3
  <1>12. ReplayInv'
    BY <1>5, <1>6 DEF Inv, ReplayInv
  <1>13. WorkProtected'
    <2> SUFFICES ASSUME NEW q \in Req, pc'[q] = "source",
                        now < job'[q].at + ReservationTTL
                 PROVE  Owner(q)'
      BY <1>1 DEF WorkProtected
    <2>1. CASE q = r
      BY <1>6, <1>7, <1>8, <2>1 DEF Owner, Owns
    <2>2. CASE q # r
      <3>1. Owner(q) /\ SlotOf(q) \in Slot
        BY <1>6, <2>2 DEF Inv, WorkProtected, TypeOK, SlotOf, Slot
      <3>2. store'[SlotOf(q)] = store[SlotOf(q)]
        BY <1>4, <1>8, <3>1 DEF Owner, Owns
      <3>3. QED
        BY <1>6, <2>2, <3>1, <3>2 DEF Owner
    <2>3. QED
      BY <2>1, <2>2
  <1>14. QED
    BY <1>9, <1>10, <1>11, <1>12, <1>13 DEF Inv

(* A handler ends: its own slot becomes free, or complete with its own     *)
(* result, and no other reservation is touched.                            *)
LEMMA EndKeepsInv ==
    ASSUME Inv, NEW r \in Req, pc[r] = "source",
           UNCHANGED <<now, tokens, last, job>>,
           NEW ans \in {"failed", "served"}, Finish(r, ans),
           store' \in [Slot -> Entry],
           store[SlotOf(r)].state = "reserved" /\ store[SlotOf(r)].token = r =>
              store'[SlotOf(r)] # store[SlotOf(r)],
           \A s \in Slot :
              \/ store'[s] = store[s]
              \/ store[s].state = "complete" /\ store'[s] = Absent
              \/ /\ s = SlotOf(r) /\ Owner(r)
                 /\ \/ store'[s] = Absent
                    \/ ans = "served" /\ store'[s] = Completed(store[s], r, now + TTL)
    PROVE  Inv'
  <1>1. /\ \A q \in Req \ {r} : pc'[q] = pc[q] /\ answer'[q] = answer[q]
        /\ \A q \in Req : job'[q] = job[q] /\ SlotOf(q)' = SlotOf(q)
        /\ pc'[r] = "done" /\ answer'[r] = ans
        /\ answer[r] = "none"
    BY DEF Inv, TypeOK, PhaseInv, Finish, SlotOf
  <1>2. TypeOK'
    BY <1>1 DEF Inv, TypeOK, Finish, Answers
  <1>3. PhaseInv'
    BY <1>1 DEF Inv, PhaseInv
  <1>4. StoreInv'
    <2> SUFFICES ASSUME NEW s \in Slot
                 PROVE  /\ store'[s].state = "reserved" => HeldBy(s, store[s].token)'
                        /\ store'[s].state = "complete" => ResultOf(s, store[s].resp)'
      BY DEF StoreInv
    <2>1. CASE store'[s] = Absent
      BY <2>1 DEF Absent
    <2>2. CASE store'[s] = store[s]
      <3>1. ASSUME store[s].state = "reserved" PROVE HeldBy(s, store[s].token)'
        <4>1. HeldBy(s, store[s].token)
          BY <3>1 DEF Inv, StoreInv
        <4>2. store[s].token # r
          BY <2>2, <3>1, <4>1 DEF HeldBy
        <4>3. QED
          BY <1>1, <2>2, <4>1, <4>2 DEF HeldBy
      <3>2. store[s].state = "complete" => ResultOf(s, store[s].resp)'
        BY <1>1, <2>2 DEF Inv, StoreInv, ResultOf
      <3>3. QED
        BY <2>2, <3>1, <3>2
    <2>3. CASE /\ s = SlotOf(r) /\ Owner(r) /\ ans = "served"
               /\ store'[s] = Completed(store[s], r, now + TTL)
      <3>1. /\ store'[s].state = "complete" /\ store'[s].resp = r
            /\ store'[s].fp = job[r].body
        <4>1. store[s] \in Entry /\ now + TTL \in Nat
          BY ApiKeyAssumption DEF Inv, TypeOK
        <4>2. QED
          BY <2>3, <4>1, CompletedTyped DEF Owner, Owns
      <3>2. QED
        BY <1>1, <2>3, <3>1 DEF ResultOf
    <2>4. QED
      BY <2>1, <2>2, <2>3
  <1>5. ReplayInv'
    BY <1>1 DEF Inv, ReplayInv
  <1>6. WorkProtected'
    <2> SUFFICES ASSUME NEW q \in Req, pc'[q] = "source",
                        now < job'[q].at + ReservationTTL
                 PROVE  Owner(q)'
      BY DEF WorkProtected
    <2>1. q # r /\ Owner(q) /\ SlotOf(q) \in Slot
      BY <1>1 DEF Inv, WorkProtected, TypeOK, SlotOf, Slot
    <2>2. store'[SlotOf(q)] = store[SlotOf(q)]
      BY <2>1 DEF Owner, Owns
    <2>3. QED
      BY <1>1, <2>1, <2>2 DEF Owner
  <1>7. QED
    BY <1>2, <1>3, <1>4, <1>5, <1>6 DEF Inv

(* abort() frees the slot of its owner and nothing else.                   *)
LEMMA ReleaseEffect ==
    ASSUME TypeOK, NEW r \in Req, pc[r] = "source", store' = Release(r)
    PROVE  /\ store' \in [Slot -> Entry] /\ SlotOf(r) \in Slot
           /\ Owner(r) => store'[SlotOf(r)] = Absent
           /\ \A s \in Slot :
                \/ store'[s] = store[s]
                \/ s = SlotOf(r) /\ Owner(r) /\ store'[s] = Absent
  <1>1. SlotOf(r) \in Slot
    BY DEF TypeOK, SlotOf, Slot
  <1>2. store \in [Slot -> Entry]
    BY DEF TypeOK
  <1>3. CASE Owner(r)
    <2>1. store' = [store EXCEPT ![SlotOf(r)] = Absent]
      BY <1>3 DEF Release, Owner
    <2>2. QED
      BY <1>1, <1>2, <1>3, <2>1, AbsentTyped
  <1>4. CASE ~Owner(r)
    <2>1. store' = store
      BY <1>1, <1>2, <1>4 DEF Release, Owner
    <2>2. QED
      BY <1>1, <1>2, <1>4, <2>1
  <1>5. QED
    BY <1>3, <1>4

LEMMA NextKeepsInv == Inv /\ [Next]_vars => Inv'
  <1> SUFFICES ASSUME Inv, [Next]_vars PROVE Inv'
    OBVIOUS
  <1>1. CASE \E r \in Req, t \in Tenant, k \in Key, b \in Body : Arrive(r, t, k, b)
    BY <1>1, ArriveKeepsInv, AdmitKeepsInv
  <1>a. ASSUME NEW r \in Req, pc[r] = "source",
               store[SlotOf(r)].state = "reserved", store[SlotOf(r)].token = r
        PROVE  Owner(r)
    <2>1. SlotOf(r) \in Slot
      BY <1>a DEF Inv, TypeOK, SlotOf, Slot
    <2>2. QED
      BY <1>a, <2>1 DEF Inv, StoreInv, HeldBy, Owner, Owns
  <1>b. ASSUME NEW r \in Req, pc[r] = "source", store' = Release(r),
               UNCHANGED <<now, tokens, last, job>>,
               NEW ans \in {"failed", "served"}, Finish(r, ans)
        PROVE  Inv'
    <2>1. TypeOK
      BY DEF Inv
    <2>2. /\ store' \in [Slot -> Entry] /\ SlotOf(r) \in Slot
          /\ Owner(r) => store'[SlotOf(r)] = Absent
          /\ \A s \in Slot :
                \/ store'[s] = store[s]
                \/ s = SlotOf(r) /\ Owner(r) /\ store'[s] = Absent
      BY <1>b, <2>1, ReleaseEffect
    <2>3. store[SlotOf(r)].state = "reserved" /\ store[SlotOf(r)].token = r =>
             store'[SlotOf(r)] # store[SlotOf(r)]
      BY <1>a, <1>b, <2>2 DEF Absent
    <2>4. QED
      BY <1>b, <2>2, <2>3, EndKeepsInv
  <1>2. CASE \E r \in Req : SourceFail(r)
    BY <1>2, <1>b DEF SourceFail
  <1>3. CASE \E r \in Req, fits \in BOOLEAN : SourceReturn(r, fits)
    <2>1. PICK r \in Req, fits \in BOOLEAN : SourceReturn(r, fits)
      BY <1>3
    <2>2. CASE store' = Release(r)
      BY <2>1, <2>2, <1>b DEF SourceReturn
    <2>3. CASE Owner(r) /\ store' \in Published(r)
      <3>1. PICK K \in SUBSET CompletedSlots :
               store' = [Without(K) EXCEPT ![SlotOf(r)] = Completed(@, r, now + TTL)]
        BY <2>3 DEF Published
      <3>2. SlotOf(r) \in Slot /\ SlotOf(r) \notin K
        BY <2>1, <2>3 DEF Inv, TypeOK, SlotOf, Slot, SourceReturn, Owner, Owns,
                          CompletedSlots
      <3>3. /\ Without(K) \in [Slot -> Entry]
            /\ Without(K)[SlotOf(r)] = store[SlotOf(r)]
            /\ \A s \in Slot :
                  \/ Without(K)[s] = store[s]
                  \/ store[s].state = "complete" /\ Without(K)[s] = Absent
        <4>1. store \in [Slot -> Entry]
          BY DEF Inv, TypeOK
        <4>2. \A s \in K : s \in Slot /\ store[s].state = "complete"
          BY <3>1 DEF CompletedSlots
        <4>3. QED
          BY <3>2, <4>1, <4>2, AbsentTyped DEF Without
      <3>4. /\ Completed(store[SlotOf(r)], r, now + TTL) \in Entry
            /\ Completed(store[SlotOf(r)], r, now + TTL).state = "complete"
        <4>1. store[SlotOf(r)] \in Entry /\ now + TTL \in Nat
          BY <3>2, ApiKeyAssumption DEF Inv, TypeOK
        <4>2. QED
          BY <4>1, CompletedTyped
      <3>5. /\ store' \in [Slot -> Entry]
            /\ store'[SlotOf(r)] = Completed(store[SlotOf(r)], r, now + TTL)
            /\ \A s \in Slot \ {SlotOf(r)} : store'[s] = Without(K)[s]
        BY <3>1, <3>2, <3>3, <3>4
      <3>6. store[SlotOf(r)].state = "reserved" => store'[SlotOf(r)] # store[SlotOf(r)]
        BY <3>4, <3>5
      <3>7. QED
        BY <2>1, <2>3, <3>3, <3>5, <3>6, EndKeepsInv DEF SourceReturn
    <2>4. QED
      BY <2>1, <2>2, <2>3 DEF SourceReturn
  <1>4. CASE \E r \in Req : Cancel(r)
    <2>1. PICK r \in Req : Cancel(r)
      BY <1>4
    <2>2. /\ \A q \in Req \ {r} : pc'[q] = pc[q]
          /\ pc[r] = "source" /\ pc'[r] = "cancelled"
          /\ UNCHANGED <<now, store, tokens, last, job, answer>>
      BY <2>1 DEF Cancel, Inv, TypeOK
    <2>3. TypeOK'
      BY <2>1, <2>2 DEF Inv, TypeOK, Cancel
    <2>4. StoreInv'
      BY <2>2 DEF Inv, StoreInv, HeldBy, ResultOf, SlotOf
    <2>5. PhaseInv' /\ ReplayInv' /\ WorkProtected'
      BY <2>2 DEF Inv, PhaseInv, ReplayInv, WorkProtected, SlotOf, Owner
    <2>6. QED
      BY <2>3, <2>4, <2>5 DEF Inv
  <1>5. CASE Tick
    <2>1. /\ now' = now + 1 /\ now \in Nat /\ store' \in [Slot -> Entry]
          /\ \A s \in Slot :
                \/ store'[s] = Absent
                \/ /\ store'[s] = store[s]
                   /\ store[s].state # "absent" => store[s].expires > now'
          /\ \A s \in Slot : store[s].expires > now' => store'[s] = store[s]
          /\ UNCHANGED <<tokens, last, pc, job, answer>>
      <3>1. \A s \in Slot : store[s].expires \in Nat
        BY DEF Inv, TypeOK, Entry
      <3>2. now \in Nat /\ store \in [Slot -> Entry]
        BY DEF Inv, TypeOK
      <3>3. /\ now' = now + 1 /\ UNCHANGED <<tokens, last, pc, job, answer>>
            /\ store' = [s \in Slot |-> IF store[s].state # "absent" /\ store[s].expires <= now'
                                       THEN Absent ELSE store[s]]
        BY <1>5, <3>2 DEF Tick, Purge, IsExpired, IsPresent
      <3>4. store' \in [Slot -> Entry]
        BY <3>2, <3>3, AbsentTyped
      <3>5. QED
        BY <3>1, <3>2, <3>3, <3>4
    <2>2. TypeOK'
      BY <2>1 DEF Inv, TypeOK
    <2>3. StoreInv'
      <3> SUFFICES ASSUME NEW s \in Slot
                   PROVE  /\ store'[s].state = "reserved" => HeldBy(s, store[s].token)'
                          /\ store'[s].state = "complete" => ResultOf(s, store[s].resp)'
        BY DEF StoreInv
      <3>1. CASE store'[s] = Absent
        BY <3>1 DEF Absent
      <3>2. CASE store'[s] = store[s] /\ (store[s].state # "absent" => store[s].expires > now')
        BY <2>1, <3>2 DEF Inv, StoreInv, HeldBy, ResultOf, SlotOf
      <3>3. QED
        BY <2>1, <3>1, <3>2
    <2>4. PhaseInv' /\ ReplayInv'
      BY <2>1 DEF Inv, PhaseInv, ReplayInv, SlotOf
    <2>5. WorkProtected'
      <3> SUFFICES ASSUME NEW q \in Req, pc[q] = "source",
                          now + 1 < job[q].at + ReservationTTL
                   PROVE  Owner(q)'
        BY <2>1 DEF WorkProtected
      <3>1. job[q].at \in Nat /\ SlotOf(q) \in Slot
        BY DEF Inv, TypeOK, SlotOf, Slot
      <3>2. Owner(q)
        BY <2>1, <3>1, ApiKeyAssumption DEF Inv, WorkProtected
      <3>3. store[SlotOf(q)].expires = job[q].at + ReservationTTL
        BY <3>1, <3>2 DEF Inv, StoreInv, HeldBy, Owner, Owns
      <3>4. store'[SlotOf(q)] = store[SlotOf(q)] /\ SlotOf(q)' = SlotOf(q)
        BY <2>1, <3>1, <3>3 DEF SlotOf
      <3>5. QED
        BY <2>1, <3>2, <3>4 DEF Owner
    <2>6. QED
      BY <2>2, <2>3, <2>4, <2>5 DEF Inv
  <1>6. CASE Finished \/ UNCHANGED vars
    <2>1. UNCHANGED vars
      BY <1>6 DEF Finished
    <2>2. QED
      BY <2>1 DEF vars, Inv, TypeOK, StoreInv, HeldBy, ResultOf, SlotOf, PhaseInv,
                  ReplayInv, WorkProtected, Owner
  <1>7. QED
    BY <1>1, <1>2, <1>3, <1>4, <1>5, <1>6 DEF Next

LEMMA InvHolds == Spec => []Inv
  <1>1. Init => Inv
    BY ApiKeyAssumption, AbsentTyped
       DEF Init, Inv, TypeOK, StoreInv, PhaseInv, ReplayInv, WorkProtected,
           NoJob, Absent, Answers
  <1>2. QED
    BY <1>1, NextKeepsInv, PTL DEF Spec
-----------------------------------------------------------------------------
(* Handlers, store and buckets stay well typed; in particular no bucket    *)
(* is overdrawn.                                                           *)
THEOREM TypeCorrect == Spec => []TypeOK
  <1>1. Inv => TypeOK
    BY DEF Inv
  <1>2. QED
    BY <1>1, InvHolds, PTL

(* A replay is the served result of the same tenant, key and call.         *)
THEOREM ReplayIsBound == Spec => []ReplayBinding
  <1>1. Inv => ReplayBinding
    BY DEF Inv, ReplayInv, ReplayBinding, SlotOf
  <1>2. QED
    BY <1>1, InvHolds, PTL

(* A handler at work owns its key for the whole of its reservation.        *)
THEOREM WorkIsProtected == Spec => []WorkProtected
  <1>1. Inv => WorkProtected
    BY DEF Inv
  <1>2. QED
    BY <1>1, InvHolds, PTL

(* Keys are held only by work that may still be going on.                  *)
THEOREM NothingLeaks == Spec => []OnlyWorkHolds
  <1>1. Inv => OnlyWorkHolds
    BY DEF Inv, StoreInv, HeldBy, OnlyWorkHolds
  <1>2. QED
    BY <1>1, InvHolds, PTL
-----------------------------------------------------------------------------
(* The quota.  Who was charged grows by one request at a time, each for a  *)
(* token, so that it stays finite needs no assumption about Req.           *)
Charged(t) == {r \in Req : job[r].tenant = t}
QuotaInv ==
    \A t \in Tenant :
        /\ IsFiniteSet(Charged(t))
        /\ Cardinality(Charged(t)) + tokens[t] <= Capacity + Rate * last[t]

(* A refill adds at most what the time since the last one is worth.        *)
LEMMA RefillWithin ==
    ASSUME TypeOK, NEW t \in Tenant
    PROVE  /\ Refilled(t) \in 0..Capacity /\ tokens[t] \in Nat /\ last[t] \in Nat
           /\ Refilled(t) + Rate * last[t] <= tokens[t] + Rate * now
  <1>1. /\ tokens[t] \in 0..Capacity /\ last[t] \in 0..now /\ now \in Nat
        /\ Rate \in Nat /\ Capacity \in Nat
    BY ApiKeyAssumption DEF TypeOK
  <1>2. PICK d \in Nat : d = now - last[t]
    BY <1>1
  <1>3. d * Rate \in Nat /\ d * Rate + Rate * last[t] = Rate * now
    <2>1. \A x, y, z \in Nat : x * z \in Nat /\ x * z + z * y = z * (x + y)
      OBVIOUS
    <2>2. now = d + last[t]
      BY <1>1, <1>2
    <2>3. QED
      BY <1>1, <2>1, <2>2
  <1>4. PICK gain \in Nat : gain = d * Rate
    BY <1>3
  <1>5. Refilled(t) = IF tokens[t] + gain <= Capacity THEN tokens[t] + gain ELSE Capacity
    BY <1>2, <1>4 DEF Refilled
  <1>6. Rate * last[t] \in Nat /\ Rate * now \in Nat
    BY <1>1
  <1>7. PICK a \in Nat, b \in Nat : a = Rate * last[t] /\ b = Rate * now
    BY <1>6
  <1>8. gain + a = b
    BY <1>3, <1>4, <1>7
  <1>9. QED
    BY <1>1, <1>5, <1>7, <1>8

(* At most one more request is charged, and then a token is gone.          *)
LEMMA ChargeKeeps ==
    ASSUME TypeOK, QuotaInv, NEW r \in Req, NEW t \in Tenant, now' = now,
           \/ /\ Refilled(t) >= 1 /\ Charge(t)
              /\ \A u \in Tenant : Charged(u)' \subseteq
                                      Charged(u) \cup (IF u = t THEN {r} ELSE {})
           \/ SetBucket(t, Refilled(t)) /\ job' = job
    PROVE  QuotaInv'
  <1>1. SUFFICES ASSUME NEW u \in Tenant
                 PROVE  /\ IsFiniteSet(Charged(u)')
                        /\ Cardinality(Charged(u)') + tokens'[u] <= Capacity + Rate * last'[u]
    BY DEF QuotaInv
  <1>2. PICK C, D : C = Charged(u) /\ D = Charged(u)'
    OBVIOUS
  <1>3. /\ IsFiniteSet(C) /\ Cardinality(C) \in Nat
        /\ Cardinality(C) + tokens[u] <= Capacity + Rate * last[u]
    BY <1>2, FS_CardinalityType DEF QuotaInv
  <1>4. D \subseteq C \cup {r}
    BY <1>2 DEF Charged
  <1>5. IsFiniteSet(C \cup {r}) /\ Cardinality(C \cup {r}) \in Nat
        /\ Cardinality(C \cup {r}) <= Cardinality(C) + 1
    <2>1. IsFiniteSet(C \cup {r}) /\ (Cardinality(C \cup {r}) = Cardinality(C)
                                       \/ Cardinality(C \cup {r}) = Cardinality(C) + 1)
      BY <1>3, FS_AddElement
    <2>2. QED
      BY <1>3, <2>1
  <1>6. /\ IsFiniteSet(D) /\ Cardinality(D) \in Nat
        /\ Cardinality(D) <= Cardinality(C) + 1
    <2>1. IsFiniteSet(D) /\ Cardinality(D) <= Cardinality(C \cup {r})
      BY <1>4, <1>5, FS_Subset
    <2>2. QED
      BY <1>3, <1>5, <2>1, FS_CardinalityType
  <1>7. D \subseteq C => Cardinality(D) <= Cardinality(C)
    BY <1>3, FS_Subset
  <1>8. /\ tokens \in [Tenant -> 0..Capacity] /\ last \in [Tenant -> 0..now]
        /\ now \in Nat /\ Rate \in Nat /\ Capacity \in Nat
    BY ApiKeyAssumption DEF TypeOK
  <1>9. CASE u = t
    <2>1. /\ Refilled(t) \in 0..Capacity /\ tokens[t] \in Nat /\ last[t] \in Nat
          /\ Refilled(t) + Rate * last[t] <= tokens[t] + Rate * now
      BY RefillWithin
    <2>2. PICK a \in Nat, b \in Nat : a = Rate * last[t] /\ b = Rate * now
      BY <1>8, <2>1
    <2>3. last'[t] = now
      BY <1>8 DEF Charge, SetBucket
    <2>4. \/ tokens'[t] = Refilled(t) - 1
          \/ tokens'[t] = Refilled(t) /\ D \subseteq C
      BY <1>2, <1>8 DEF Charge, SetBucket, Charged
    <2>5. Cardinality(D) + tokens'[t] <= Capacity + b
      BY <1>3, <1>6, <1>7, <1>8, <1>9, <2>1, <2>2, <2>4
    <2>6. QED
      BY <1>2, <1>6, <1>9, <2>2, <2>3, <2>5
  <1>10. CASE u # t
    <2>1. D \subseteq C
      BY <1>2, <1>10 DEF Charged
    <2>2. tokens'[u] = tokens[u] /\ last'[u] = last[u]
      BY <1>8, <1>10 DEF Charge, SetBucket
    <2>3. tokens[u] \in Nat /\ Rate * last[u] \in Nat
      BY <1>8
    <2>4. QED
      BY <1>2, <1>3, <1>6, <1>7, <1>8, <2>1, <2>2, <2>3
  <1>11. QED
    BY <1>9, <1>10

LEMMA NextKeepsQuotaInv == TypeOK /\ QuotaInv /\ [Next]_vars => QuotaInv'
  <1> SUFFICES ASSUME TypeOK, QuotaInv, [Next]_vars PROVE QuotaInv'
    OBVIOUS
  <1>1. ASSUME NEW r \in Req, NEW t \in Tenant, NEW k \in Key, NEW b \in Body,
               Arrive(r, t, k, b)
        PROVE  QuotaInv'
    <2>1. now' = now
      BY <1>1 DEF Arrive
    <2>2. CASE Unauthorized(r, t)
      BY <2>2 DEF Unauthorized, QuotaInv, Charged
    <2>3. CASE OverQuota(r, t, k, b)
      BY <2>1, <2>3, ChargeKeeps DEF OverQuota
    <2>4. ASSUME Admitted(t), NEW kk, NEW from, Accept(r, t, kk, b, from)
          PROVE  QuotaInv'
      <3>1. \A u \in Tenant : Charged(u)' \subseteq
                                 Charged(u) \cup (IF u = t THEN {r} ELSE {})
        BY <2>4 DEF Accept, Charged, TypeOK
      <3>2. QED
        BY <2>1, <2>4, <3>1, ChargeKeeps DEF Admitted
    <2>5. QED
      BY <1>1, <2>2, <2>3, <2>4
         DEF Arrive, InvalidKey, Collide, Replay, NoRoom, Reject, Admit
  <1>2. ASSUME UNCHANGED <<tokens, last, job>> PROVE QuotaInv'
    BY <1>2 DEF QuotaInv, Charged
  <1>3. QED
    BY <1>1, <1>2 DEF Next, SourceFail, SourceReturn, Cancel, Tick, Finished, vars

(* However requests interleave, a tenant is charged for every attempt that *)
(* gets past authentication, and never beyond its quota.                   *)
THEOREM AttemptsAreCharged == Spec => []QuotaCoversAttempts
  <1>1. Init => QuotaInv
    <2>1. SUFFICES ASSUME Init, NEW t \in Tenant
                   PROVE  /\ IsFiniteSet(Charged(t))
                          /\ Cardinality(Charged(t)) + tokens[t] <= Capacity + Rate * last[t]
      BY DEF QuotaInv
    <2>2. Charged(t) = {}
      BY <2>1, ApiKeyAssumption DEF Init, Charged, NoJob
    <2>3. tokens[t] = Capacity /\ Rate * last[t] = 0 /\ Capacity \in Nat
      BY <2>1, ApiKeyAssumption DEF Init
    <2>4. IsFiniteSet({}) /\ Cardinality({}) = 0
      BY FS_EmptySet
    <2>5. QED
      BY <2>2, <2>3, <2>4
  <1>2. QuotaInv => QuotaCoversAttempts
    BY DEF QuotaInv, QuotaCoversAttempts, Charged
  <1>3. QED
    BY <1>1, <1>2, NextKeepsQuotaInv, TypeCorrect, PTL DEF Spec
-----------------------------------------------------------------------------
(* A refusal, a replay or a failure takes no other entry, unless it was to *)
(* be admitted and the store was full: transaction_preflight() reserves,   *)
(* and so evicts, only after every earlier test has passed.                *)
THEOREM RefusalsAreFree == Spec => RefusalsTakeNothing
  <1>1. TypeOK /\ [Next]_vars => RefusalStep
    <2> SUFFICES ASSUME TypeOK, [Next]_vars, NEW q \in Req, answer[q] = "none",
                        answer'[q] \in Answers \ {"none", "served"},
                        NEW s \in CompletedSlots, store'[s] # store[s]
                 PROVE  Full /\ answer'[q] = "failed"
      BY DEF RefusalStep
    <2>1. s \in Slot /\ store[s].state = "complete" /\ answer'[q] # answer[q]
      BY DEF CompletedSlots
    <2>2. ASSUME NEW r \in Req, NEW ans, Finish(r, ans)
          PROVE  q = r /\ answer'[q] = ans
      BY <2>1, <2>2 DEF Finish, TypeOK
    <2>3. ASSUME NEW r \in Req, NEW t \in Tenant, NEW k \in Key, NEW b \in Body,
                 Arrive(r, t, k, b)
          PROVE  Full /\ answer'[q] = "failed"
      <3>1. Reject(r, t, k, b)
        BY <2>1, <2>3 DEF Arrive, Unauthorized, OverQuota, InvalidKey, Collide,
                          Replay, NoRoom, Admit
      <3>2. QED
        BY <2>1, <2>2, <3>1 DEF Reject, Evictions
    <2>4. ASSUME NEW r \in Req, SourceFail(r) PROVE FALSE
      <3>1. store' = Release(r)
        BY <2>4 DEF SourceFail
      <3>2. store \in [Slot -> Entry]
        BY DEF TypeOK
      <3>3. s = SlotOf(r) /\ Owns(store[s], job[r].body, r)
        BY <2>1, <3>1, <3>2 DEF Release
      <3>4. QED
        BY <2>1, <3>3 DEF Owns
    <2>5. ASSUME NEW r \in Req, NEW fits, SourceReturn(r, fits) PROVE FALSE
      BY <2>2, <2>5 DEF SourceReturn
    <2>6. QED
      BY <2>1, <2>3, <2>4, <2>5 DEF Next, Cancel, Tick, Finished, vars
  <1>2. QED
    BY <1>1, TypeCorrect, PTL DEF Spec, RefusalsTakeNothing
=============================================================================
