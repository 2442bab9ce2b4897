------------------------ MODULE VerifiedSourceProofs ------------------------
(***************************************************************************)
(* What a resolution of lucent/verified_source.py guarantees, for every    *)
(* chain, any depth of proxies and any number of replaced blocks.          *)
(*                                                                         *)
(* The argument has four layers.  ForkInv: an answer is never older than   *)
(* the pinned block nor newer than the served one, so a confirmation that  *)
(* finds them equal covers every answer in between.  BudgetInv: the number *)
(* of calls made is bounded by the step reached and the hops taken.        *)
(* PathInv: the walk's variables are answers that were read; with OneBlock *)
(* they are answers of the pinned block.  CycleInv, on its own, says where *)
(* the walk was.                                                           *)
(***************************************************************************)
EXTENDS VerifiedSource, TLAPS

-----------------------------------------------------------------------------
(* An answer of the chain has the type of the slot it was read from.       *)
LEMMA AnswersTyped ==
    ASSUME TypeOK
    PROVE  /\ \A at : Answers("code", at, Codes \cup {None}) \subseteq Codes \cup {None}
           /\ \A at : Answers("slot", at, Addrs \cup {None}) \subseteq Addrs \cup {None}
           /\ \A at : Answers("beacon", at, Addrs \cup {None}) \subseteq Addrs \cup {None}
           /\ \A at : Answers("impl", at, Addrs) \subseteq Addrs
  BY DEF TypeOK, Answers, Answer

(* A hop that is followed keeps the types.                                 *)
LEMMA FollowTyped ==
    ASSUME TypeOK, NEW b \in Addrs \cup {None}, NEW a \in Addrs, Follow(b, a)
    PROVE  /\ hops' \in Seq(Hop) /\ current' \in Addrs
           /\ pc' \in {"done", "code"} /\ outcome' \in {outcome, "cycle"}
  BY DEF TypeOK, Follow, Hop, End, GoTo

LEMMA NextTyped == TypeOK /\ [Next]_vars => TypeOK'
  <1> SUFFICES ASSUME TypeOK, [Next]_vars PROVE TypeOK'
    OBVIOUS
  <1> USE DEF Steps, Outcomes
  <1>1. CASE \E same \in BOOLEAN : ChainId(same)
    BY <1>1 DEF TypeOK, ChainId, Rpc, End, GoTo, walk
  <1>2. CASE Finalized
    BY <1>2 DEF TypeOK, Finalized, Rpc, End, GoTo, walk
  <1>3. CASE ReadCode
    <2>1. PICK c \in Answers("code", current, Codes \cup {None}) :
             /\ Read("code", current, c)
             /\ code' = c
             /\ IF c = None THEN End("no_code") ELSE GoTo("slot")
      BY <1>3 DEF ReadCode
    <2>2. c \in Codes \cup {None}
      BY AnswersTyped
    <2>3. reads' \subseteq Answer
      BY <2>1, <2>2 DEF TypeOK, Read, Answer
    <2>4. QED
      BY <1>3, <2>1, <2>2, <2>3 DEF ReadCode, TypeOK, Rpc, End, GoTo
  <1>4. CASE ReadSlot
    <2>1. PICK a \in Answers("slot", current, Addrs \cup {None}) :
             Read("slot", current, a) /\ slot' = a
      BY <1>4 DEF ReadSlot
    <2>2. a \in Addrs \cup {None}
      BY AnswersTyped
    <2>3. reads' \subseteq Answer
      BY <2>1, <2>2 DEF TypeOK, Read, Answer
    <2>4. QED
      BY <1>4, <2>1, <2>2, <2>3 DEF ReadSlot, TypeOK, Rpc, End, GoTo
  <1>5. CASE ReadBeacon
    <2>1. PICK a \in Answers("beacon", current, Addrs \cup {None}) :
             Read("beacon", current, a) /\ beacon' = a
      BY <1>5 DEF ReadBeacon
    <2>2. a \in Addrs \cup {None}
      BY AnswersTyped
    <2>3. reads' \subseteq Answer
      BY <2>1, <2>2 DEF TypeOK, Read, Answer
    <2>4. CASE (Ambiguous \/ Direct \/ Deep \/ ByBeacon) /\ UNCHANGED <<current, hops>>
      BY <1>5, <2>1, <2>2, <2>3, <2>4
         DEF ReadBeacon, TypeOK, Rpc, End, GoTo, Ambiguous, Direct, Deep, ByBeacon
    <2>5. CASE BySlot
      <3>1. slot \in Addrs /\ Follow(None, slot)
        BY <2>5 DEF BySlot, TypeOK
      <3>2. /\ hops' \in Seq(Hop) /\ current' \in Addrs
            /\ pc' \in {"done", "code"} /\ outcome' \in {outcome, "cycle"}
        BY <3>1, FollowTyped
      <3>3. QED
        BY <1>5, <2>1, <2>2, <2>3, <3>2 DEF ReadBeacon, TypeOK, Rpc
    <2>6. QED
      BY <1>5, <2>4, <2>5 DEF ReadBeacon
  <1>6. CASE ReadBeaconCode
    <2>1. PICK c \in Answers("code", beacon, Codes \cup {None}) :
             /\ Read("code", beacon, c)
             /\ IF c = None THEN End("no_code") ELSE GoTo("beaconImpl")
      BY <1>6 DEF ReadBeaconCode
    <2>2. c \in Codes \cup {None}
      BY AnswersTyped
    <2>3. reads' \subseteq Answer
      BY <1>6, <2>1, <2>2 DEF ReadBeaconCode, TypeOK, Read, Answer
    <2>4. QED
      BY <1>6, <2>1, <2>2, <2>3 DEF ReadBeaconCode, TypeOK, Rpc, End, GoTo, walk
  <1>7. CASE ReadBeaconImpl
    <2>1. PICK a \in Answers("impl", beacon, Addrs) :
             /\ Read("impl", beacon, a)
             /\ \/ a = beacon /\ End("cycle") /\ UNCHANGED <<current, hops>>
                \/ a # beacon /\ Follow(beacon, a)
      BY <1>7 DEF ReadBeaconImpl
    <2>2. a \in Addrs
      BY AnswersTyped
    <2>3. reads' \subseteq Answer
      BY <1>7, <2>1, <2>2 DEF ReadBeaconImpl, TypeOK, Read, Answer
    <2>4. QED
      BY <1>7, <2>1, <2>2, <2>3, FollowTyped DEF ReadBeaconImpl, TypeOK, Rpc, End
  <1>8. CASE \E c \in Codes, identified, verified, abi \in BOOLEAN :
               Sourcify(c, identified, verified, abi)
    BY <1>8 DEF TypeOK, Sourcify, End, GoTo, walk
  <1>9. CASE Confirm
    BY <1>9 DEF TypeOK, Confirm, Rpc, End, GoTo, walk
  <1>10. CASE Bind
    BY <1>10 DEF TypeOK, Bind, End, walk
  <1>11. CASE GiveUp
    BY <1>11 DEF TypeOK, GiveUp, End, walk
  <1>12. CASE Reorg
    BY <1>12, ResolverAssumption DEF TypeOK, Reorg, walk
  <1>13. CASE Finished \/ UNCHANGED vars
    BY <1>13 DEF TypeOK, Finished, vars
  <1>14. QED
    BY <1>1, <1>2, <1>3, <1>4, <1>5, <1>6, <1>7, <1>8, <1>9, <1>10, <1>11,
       <1>12, <1>13 DEF Next, Step

(* The types of the resolver's variables hold in every reachable state.    *)
THEOREM ResolverTypes == Spec => []TypeOK
  <1>1. Init => TypeOK
    BY ResolverAssumption DEF Init, TypeOK, Steps, Outcomes, Hop
  <1>2. QED
    BY <1>1, NextTyped, PTL DEF Spec
-----------------------------------------------------------------------------
(* Every answer lies between the pinned block and the served one.          *)
ForkInv ==
    /\ pinned <= fork
    /\ \A r \in reads : pinned <= r.fork /\ r.fork <= fork
    /\ pc \in {"chainId", "finalized"} => reads = {}
    /\ pc # "done" => outcome = "none"
    /\ OneBlock

(* A read in the middle of the resolution is of the block served now.      *)
LEMMA ReadKeepsForkInv ==
    ASSUME TypeOK, ForkInv, NEW what, NEW at, NEW value,
           Read(what, at, value), fork' = fork, pinned' = pinned,
           pc' \notin {"chainId", "finalized", "bind"},
           outcome' \notin {"cleared", "proxy"},
           pc' # "done" => outcome' = "none"
    PROVE  ForkInv'
  BY DEF TypeOK, ForkInv, OneBlock, Resolved, Read

LEMMA NextKeepsForkInv == TypeOK /\ ForkInv /\ [Next]_vars => ForkInv'
  <1> SUFFICES ASSUME TypeOK, ForkInv, [Next]_vars PROVE ForkInv'
    OBVIOUS
  <1>1. CASE \E same \in BOOLEAN : ChainId(same)
    BY <1>1 DEF ForkInv, OneBlock, Resolved, ChainId, End, GoTo
  <1>2. CASE Finalized
    BY <1>2 DEF TypeOK, ForkInv, OneBlock, Resolved, Finalized, GoTo
  <1>3. CASE ReadCode
    <2>1. PICK c \in Answers("code", current, Codes \cup {None}) :
             /\ Read("code", current, c)
             /\ IF c = None THEN End("no_code") ELSE GoTo("slot")
      BY <1>3 DEF ReadCode
    <2>2. QED
      BY <1>3, <2>1, ReadKeepsForkInv DEF ReadCode, ForkInv, End, GoTo
  <1>4. CASE ReadSlot
    <2>1. PICK a \in Answers("slot", current, Addrs \cup {None}) :
             Read("slot", current, a)
      BY <1>4 DEF ReadSlot
    <2>2. QED
      BY <1>4, <2>1, ReadKeepsForkInv DEF ReadSlot, ForkInv, GoTo
  <1>5. CASE ReadBeacon
    <2>1. PICK a \in Answers("beacon", current, Addrs \cup {None}) :
             Read("beacon", current, a)
      BY <1>5 DEF ReadBeacon
    <2>2. QED
      BY <1>5, <2>1, ReadKeepsForkInv
         DEF ReadBeacon, ForkInv, Ambiguous, Direct, Deep, ByBeacon, BySlot,
             Follow, End, GoTo
  <1>6. CASE ReadBeaconCode
    <2>1. PICK c \in Answers("code", beacon, Codes \cup {None}) :
             /\ Read("code", beacon, c)
             /\ IF c = None THEN End("no_code") ELSE GoTo("beaconImpl")
      BY <1>6 DEF ReadBeaconCode
    <2>2. QED
      BY <1>6, <2>1, ReadKeepsForkInv DEF ReadBeaconCode, ForkInv, End, GoTo
  <1>7. CASE ReadBeaconImpl
    <2>1. PICK a \in Answers("impl", beacon, Addrs) :
             /\ Read("impl", beacon, a)
             /\ \/ a = beacon /\ End("cycle") /\ UNCHANGED <<current, hops>>
                \/ a # beacon /\ Follow(beacon, a)
      BY <1>7 DEF ReadBeaconImpl
    <2>2. QED
      BY <1>7, <2>1, ReadKeepsForkInv
         DEF ReadBeaconImpl, ForkInv, Follow, End, GoTo
  <1>8. CASE \E c \in Codes, identified, verified, abi \in BOOLEAN :
               Sourcify(c, identified, verified, abi)
    BY <1>8 DEF ForkInv, OneBlock, Resolved, Sourcify, End, GoTo
  <1>9. CASE Confirm
    BY <1>9 DEF TypeOK, ForkInv, OneBlock, Resolved, Confirm, SameBlock,
                Answer, End, GoTo
  <1>10. CASE Bind
    BY <1>10 DEF ForkInv, OneBlock, Resolved, Bind, End
  <1>11. CASE GiveUp
    BY <1>11 DEF ForkInv, OneBlock, Resolved, GiveUp, End
  <1>12. CASE Reorg
    BY <1>12 DEF TypeOK, ForkInv, OneBlock, Resolved, Reorg, Waiting, Answer
  <1>13. CASE Finished \/ UNCHANGED vars
    BY <1>13 DEF ForkInv, OneBlock, Resolved, Finished, vars
  <1>14. QED
    BY <1>1, <1>2, <1>3, <1>4, <1>5, <1>6, <1>7, <1>8, <1>9, <1>10, <1>11,
       <1>12, <1>13 DEF Next, Step

LEMMA ForkInvariant == Spec => []ForkInv
  <1>1. Init => ForkInv
    BY DEF Init, ForkInv, OneBlock, Resolved
  <1>2. QED
    BY <1>1, NextKeepsForkInv, ResolverTypes, PTL DEF Spec

(* However often the endpoint replaces the block during a resolution, a    *)
(* result rests on the one block whose hash it reports.                    *)
THEOREM ResolvedAtOneBlock == Spec => []OneBlock
  <1>1. ForkInv => OneBlock
    BY DEF ForkInv
  <1>2. QED
    BY <1>1, ForkInvariant, PTL
-----------------------------------------------------------------------------
(* The calls made when the resolver waits for an answer, by step and hops. *)
Spent ==
    [chainId |-> 0, finalized |-> 1, code |-> 2, slot |-> 3, beacon |-> 4,
     beaconCode |-> 5, beaconImpl |-> 6, sourcify |-> 5, confirm |-> 5]

BudgetInv ==
    /\ Len(hops) <= MaxHops
    /\ pc \in {"chainId", "finalized"} => Len(hops) = 0
    /\ pc \in {"beaconCode", "beaconImpl"} => Len(hops) < MaxHops
    /\ Waiting => calls <= Spent[pc] + 5 * Len(hops)
    /\ requests <= calls + (IF pc \in {"confirm", "bind", "done"} THEN 1 ELSE 0)
    /\ LimitsSuffice

(* In no state where an answer is awaited is either budget used up.        *)
LEMMA BudgetLeft ==
    ASSUME TypeOK, BudgetInv, Waiting
    PROVE  /\ pc # "sourcify" => calls < MaxRpcCalls
           /\ requests < MaxHttpRequests
  BY ResolverAssumption DEF TypeOK, Steps, BudgetInv, Waiting, Spent

LEMMA NextKeepsBudgetInv == TypeOK /\ BudgetInv /\ [Next]_vars => BudgetInv'
  <1> SUFFICES ASSUME TypeOK, BudgetInv, [Next]_vars PROVE BudgetInv'
    OBVIOUS
  <1> USE DEF Spent, Waiting, LimitsSuffice
  <1>1. CASE \E same \in BOOLEAN : ChainId(same)
    BY <1>1 DEF TypeOK, BudgetInv, ChainId, Rpc, End, GoTo, walk
  <1>2. CASE Finalized
    BY <1>2 DEF TypeOK, BudgetInv, Finalized, Rpc, GoTo, walk
  <1>3. CASE ReadCode
    BY <1>3 DEF TypeOK, BudgetInv, ReadCode, Rpc, End, GoTo
  <1>4. CASE ReadSlot
    BY <1>4 DEF TypeOK, BudgetInv, ReadSlot, Rpc, GoTo
  <1>5. CASE ReadBeacon
    <2>1. CASE (Ambiguous \/ Direct \/ Deep \/ ByBeacon) /\ UNCHANGED <<current, hops>>
      BY <1>5, <2>1, ResolverAssumption
         DEF TypeOK, BudgetInv, ReadBeacon, Ambiguous, Direct, Deep, ByBeacon,
             TooDeep, Rpc, End, GoTo
    <2>2. CASE BySlot
      <3>1. Len(hops') = Len(hops) + 1
        BY <2>2 DEF BySlot, Follow, TypeOK
      <3>2. QED
        BY <1>5, <2>2, <3>1, ResolverAssumption
           DEF TypeOK, BudgetInv, ReadBeacon, BySlot, Follow, TooDeep, Rpc, End, GoTo
    <2>3. QED
      BY <1>5, <2>1, <2>2 DEF ReadBeacon
  <1>6. CASE ReadBeaconCode
    BY <1>6 DEF TypeOK, BudgetInv, ReadBeaconCode, Rpc, End, GoTo, walk
  <1>7. CASE ReadBeaconImpl
    <2>1. CASE End("cycle") /\ UNCHANGED <<current, hops>>
      BY <1>7, <2>1 DEF TypeOK, BudgetInv, ReadBeaconImpl, Rpc, End
    <2>2. CASE \E a \in Answers("impl", beacon, Addrs) : Follow(beacon, a)
      <3>1. Len(hops') = Len(hops) + 1
        BY <2>2 DEF Follow, TypeOK
      <3>2. QED
        BY <1>7, <2>2, <3>1, ResolverAssumption
           DEF TypeOK, BudgetInv, ReadBeaconImpl, Follow, Rpc, End, GoTo
    <2>3. QED
      BY <1>7, <2>1, <2>2 DEF ReadBeaconImpl
  <1>8. CASE \E c \in Codes, identified, verified, abi \in BOOLEAN :
               Sourcify(c, identified, verified, abi)
    BY <1>8 DEF TypeOK, BudgetInv, Sourcify, End, GoTo, walk
  <1>9. CASE Confirm
    BY <1>9 DEF TypeOK, BudgetInv, Confirm, Rpc, End, GoTo, walk
  <1>10. CASE Bind
    BY <1>10 DEF TypeOK, BudgetInv, Bind, End, walk
  <1>11. CASE GiveUp
    <2>1. /\ pc # "sourcify" => calls < MaxRpcCalls
          /\ requests < MaxHttpRequests
      BY <1>11, BudgetLeft DEF GiveUp
    <2>2. outcome' = "upstream"
      BY <1>11, <2>1, ResolverAssumption DEF GiveUp, End, TypeOK
    <2>3. QED
      BY <1>11, <2>2 DEF TypeOK, BudgetInv, GiveUp, End, walk
  <1>12. CASE Reorg
    BY <1>12 DEF TypeOK, BudgetInv, Reorg, walk
  <1>13. CASE Finished \/ UNCHANGED vars
    BY <1>13 DEF BudgetInv, Finished, vars
  <1>14. QED
    BY <1>1, <1>2, <1>3, <1>4, <1>5, <1>6, <1>7, <1>8, <1>9, <1>10, <1>11,
       <1>12, <1>13 DEF Next, Step

LEMMA BudgetInvariant == Spec => []BudgetInv
  <1>1. Init => BudgetInv
    BY ResolverAssumption DEF Init, BudgetInv, Waiting, Spent, LimitsSuffice
  <1>2. QED
    BY <1>1, NextKeepsBudgetInv, ResolverTypes, PTL DEF Spec

(* For any MAX_PROXY_HOPS the two request budgets are large enough for the *)
(* longest chain it admits: neither ever ends a resolution.                *)
THEOREM BudgetsSuffice == Spec => []LimitsSuffice
  <1>1. BudgetInv => LimitsSuffice
    BY DEF BudgetInv
  <1>2. QED
    BY <1>1, BudgetInvariant, PTL
-----------------------------------------------------------------------------
(* The walk's variables are answers that were read, of whatever block.     *)
Seen(R, what, at, value) ==
    \E r \in R : r.what = what /\ r.at = at /\ r.value = value
HopSeen(R, h) ==
    \/ /\ h.beacon = None
       /\ Seen(R, "slot", h.proxy, h.impl) /\ Seen(R, "beacon", h.proxy, None)
    \/ /\ h.beacon # None
       /\ Seen(R, "slot", h.proxy, None) /\ Seen(R, "beacon", h.proxy, h.beacon)
       /\ Seen(R, "impl", h.beacon, h.impl)

HopsInv ==
    /\ \A i \in 1..Len(hops) :
          /\ HopSeen(reads, hops[i])
          /\ hops[i].proxy = IF i = 1 THEN Target ELSE hops[i - 1].impl
    /\ current = IF hops = <<>> THEN Target ELSE hops[Len(hops)].impl

Past == pc \in {"confirm", "bind"} \/ outcome \in {"cleared", "proxy"}
ContractInv ==
    /\ pc \in {"slot", "beacon", "beaconCode", "beaconImpl", "sourcify"} \/ Past
          => code # None /\ Seen(reads, "code", current, code)
    /\ pc \in {"beacon", "beaconCode", "beaconImpl", "sourcify"} \/ Past
          => Seen(reads, "slot", current, slot)
    /\ pc \in {"beaconCode", "beaconImpl"}
          => slot = None /\ beacon # None /\ Seen(reads, "beacon", current, beacon)
    /\ pc = "sourcify" \/ Past
          => /\ slot = None /\ Seen(reads, "beacon", current, None)
             /\ hops = <<>> => code \notin DispatchCodes
    /\ Past => source = code
    /\ outcome = "cleared" => hops = <<>>

PathInv == HopsInv /\ ContractInv

(* What was read stays read.                                               *)
LEMMA ReadGrows ==
    ASSUME NEW what, NEW at, NEW value, Read(what, at, value)
    PROVE  /\ Seen(reads', what, at, value)
           /\ reads \subseteq reads'
  <1> DEFINE r == [fork |-> fork, what |-> what, at |-> at, value |-> value]
  <1>1. reads' = reads \cup {r}
    BY DEF Read
  <1>2. r.what = what /\ r.at = at /\ r.value = value
    OBVIOUS
  <1>3. QED
    BY <1>1, <1>2 DEF Seen

LEMMA SeenStays ==
    ASSUME reads \subseteq reads'
    PROVE  /\ \A what, at, value : Seen(reads, what, at, value) => Seen(reads', what, at, value)
           /\ \A h : HopSeen(reads, h) => HopSeen(reads', h)
  BY DEF Seen, HopSeen

(* A hop recorded from answers that were read extends the path.            *)
LEMMA FollowKeepsHopsInv ==
    ASSUME TypeOK, HopsInv, reads \subseteq reads',
           NEW b \in Addrs \cup {None}, NEW a \in Addrs, Follow(b, a),
           HopSeen(reads', [proxy |-> current, beacon |-> b, impl |-> a])
    PROVE  HopsInv'
  <1> DEFINE h == [proxy |-> current, beacon |-> b, impl |-> a]
  <1>1. hops \in Seq(Hop) /\ hops' = Append(hops, h) /\ current' = a
    BY DEF TypeOK, Follow
  <1>2. /\ Len(hops') = Len(hops) + 1 /\ Len(hops) \in Nat
        /\ hops'[Len(hops) + 1] = h /\ hops' # <<>>
        /\ \A i \in 1..Len(hops) : hops'[i] = hops[i]
    BY <1>1
  <1>3. current' = hops'[Len(hops')].impl
    BY <1>1, <1>2
  <1>4. \A i \in 1..Len(hops) : HopSeen(reads', hops'[i])
    BY <1>2, SeenStays DEF HopsInv
  <1>5. HopSeen(reads', hops'[Len(hops) + 1])
    BY <1>2
  <1>6. \A i \in 1..Len(hops') :
          hops'[i].proxy = IF i = 1 THEN Target ELSE hops'[i - 1].impl
    <2> SUFFICES ASSUME NEW i \in 1..Len(hops')
                 PROVE  hops'[i].proxy = IF i = 1 THEN Target ELSE hops'[i - 1].impl
      OBVIOUS
    <2>1. CASE i <= Len(hops)
      BY <1>2, <2>1 DEF HopsInv
    <2>2. CASE i = Len(hops) + 1
      <3>1. hops'[i].proxy = current
        BY <1>2, <2>2
      <3>2. CASE hops = <<>>
        BY <3>1, <3>2, <2>2 DEF HopsInv
      <3>3. CASE hops # <<>>
        <4>1. Len(hops) \in 1..Len(hops) /\ i # 1 /\ i - 1 = Len(hops)
          BY <1>1, <1>2, <2>2, <3>3
        <4>2. QED
          BY <1>2, <3>1, <3>3, <4>1 DEF HopsInv
      <3>4. QED
        BY <3>2, <3>3
    <2>3. QED
      BY <1>2, <2>1, <2>2
  <1>7. \A i \in 1..Len(hops') : HopSeen(reads', hops'[i])
    BY <1>2, <1>4, <1>5
  <1>8. QED
    BY <1>2, <1>3, <1>6, <1>7 DEF HopsInv

(* An action that records no hop keeps the path.                           *)
LEMMA HopsStay ==
    ASSUME HopsInv, reads \subseteq reads', UNCHANGED <<current, hops>>
    PROVE  HopsInv'
  BY SeenStays DEF HopsInv

LEMMA NextKeepsPathInv ==
    TypeOK /\ ForkInv /\ PathInv /\ [Next]_vars => PathInv'
  <1> SUFFICES ASSUME TypeOK, ForkInv, PathInv, [Next]_vars PROVE PathInv'
    OBVIOUS
  <1> USE DEF PathInv
  <1>1. CASE \E same \in BOOLEAN : ChainId(same)
    BY <1>1, HopsStay DEF ForkInv, ContractInv, Past, Seen, ChainId, End, GoTo, walk
  <1>2. CASE Finalized
    BY <1>2, HopsStay DEF ForkInv, ContractInv, Past, Seen, Finalized, GoTo, walk
  <1>3. CASE ReadCode
    <2>1. PICK c \in Answers("code", current, Codes \cup {None}) :
             /\ Read("code", current, c)
             /\ code' = c
             /\ IF c = None THEN End("no_code") ELSE GoTo("slot")
      BY <1>3 DEF ReadCode
    <2>2. Seen(reads', "code", current, code') /\ reads \subseteq reads'
      BY <2>1, ReadGrows
    <2>3. ContractInv'
      BY <1>3, <2>1, <2>2 DEF ContractInv, Past, ForkInv, ReadCode, End, GoTo
    <2>4. QED
      BY <1>3, <2>2, <2>3, HopsStay DEF ReadCode
  <1>4. CASE ReadSlot
    <2>1. PICK a \in Answers("slot", current, Addrs \cup {None}) :
             Read("slot", current, a) /\ slot' = a
      BY <1>4 DEF ReadSlot
    <2>2. Seen(reads', "slot", current, slot') /\ reads \subseteq reads'
      BY <2>1, ReadGrows
    <2>3. Seen(reads', "code", current, code)
      BY <1>4, <2>2 DEF ReadSlot, ContractInv, Seen
    <2>4. ContractInv'
      BY <1>4, <2>2, <2>3 DEF ContractInv, Past, ForkInv, ReadSlot, GoTo
    <2>5. QED
      BY <1>4, <2>2, <2>4, HopsStay DEF ReadSlot
  <1>5. CASE ReadBeacon
    <2>1. PICK a \in Answers("beacon", current, Addrs \cup {None}) :
             Read("beacon", current, a) /\ beacon' = a
      BY <1>5 DEF ReadBeacon
    <2>2. Seen(reads', "beacon", current, beacon') /\ reads \subseteq reads'
      BY <2>1, ReadGrows
    <2>3. CASE (Ambiguous \/ Direct \/ Deep \/ ByBeacon) /\ UNCHANGED <<current, hops>>
      <3>1. Seen(reads', "code", current, code) /\ Seen(reads', "slot", current, slot)
        BY <1>5, <2>2, <2>3 DEF ReadBeacon, ContractInv, Seen
      <3>2. ContractInv'
        BY <1>5, <2>2, <2>3, <3>1
           DEF ContractInv, Past, ForkInv, ReadBeacon, Ambiguous, Direct, Deep,
               ByBeacon, Unsupported, End, GoTo
      <3>3. QED
        BY <2>2, <2>3, <3>2, HopsStay
    <2>4. CASE BySlot
      <3>1. slot \in Addrs /\ slot # None /\ Follow(None, slot) /\ beacon' = None
        BY <2>4 DEF BySlot, TypeOK
      <3>2. HopSeen(reads', [proxy |-> current, beacon |-> None, impl |-> slot])
        BY <1>5, <2>2, <3>1 DEF HopSeen, Seen, ReadBeacon, ContractInv
      <3>3. HopsInv'
        BY <2>2, <3>1, <3>2, FollowKeepsHopsInv
      <3>4. ContractInv'
        BY <1>5, <3>1 DEF ContractInv, Past, ForkInv, ReadBeacon, Follow, End, GoTo
      <3>5. QED
        BY <3>3, <3>4
    <2>5. QED
      BY <1>5, <2>3, <2>4 DEF ReadBeacon
  <1>6. CASE ReadBeaconCode
    <2>1. PICK c \in Answers("code", beacon, Codes \cup {None}) :
             /\ Read("code", beacon, c)
             /\ IF c = None THEN End("no_code") ELSE GoTo("beaconImpl")
      BY <1>6 DEF ReadBeaconCode
    <2>2. reads \subseteq reads'
      BY <2>1 DEF Read
    <2>3. ContractInv'
      BY <1>6, <2>1, <2>2
         DEF ContractInv, Past, ForkInv, Seen, ReadBeaconCode, End, GoTo, walk
    <2>4. QED
      BY <1>6, <2>2, <2>3, HopsStay DEF ReadBeaconCode, walk
  <1>7. CASE ReadBeaconImpl
    <2>1. PICK a \in Answers("impl", beacon, Addrs) :
             /\ Read("impl", beacon, a)
             /\ \/ a = beacon /\ End("cycle") /\ UNCHANGED <<current, hops>>
                \/ a # beacon /\ Follow(beacon, a)
      BY <1>7 DEF ReadBeaconImpl
    <2>2. /\ Seen(reads', "impl", beacon, a)
          /\ reads \subseteq reads' /\ a \in Addrs
      BY <2>1, AnswersTyped, ReadGrows
    <2>3. ContractInv'
      BY <1>7, <2>1 DEF ContractInv, Past, ForkInv, ReadBeaconImpl, Follow, End, GoTo
    <2>4. CASE a = beacon
      BY <2>1, <2>2, <2>3, <2>4, HopsStay DEF Follow
    <2>5. CASE a # beacon
      <3>1. beacon \in Addrs /\ beacon # None /\ slot = None
        BY <1>7 DEF ReadBeaconImpl, ContractInv, TypeOK
      <3>2. HopSeen(reads', [proxy |-> current, beacon |-> beacon, impl |-> a])
        BY <1>7, <2>2, <3>1 DEF HopSeen, Seen, ReadBeaconImpl, ContractInv
      <3>3. HopsInv'
        BY <2>1, <2>2, <2>5, <3>1, <3>2, FollowKeepsHopsInv
      <3>4. QED
        BY <2>3, <3>3
    <2>6. QED
      BY <2>4, <2>5
  <1>8. CASE \E c \in Codes, identified, verified, abi \in BOOLEAN :
               Sourcify(c, identified, verified, abi)
    BY <1>8, HopsStay
       DEF ContractInv, Past, ForkInv, Seen, Sourcify, Accepts, End, GoTo, walk
  <1>9. CASE Confirm
    BY <1>9, HopsStay DEF ContractInv, Past, ForkInv, Seen, Confirm, End, GoTo, walk
  <1>10. CASE Bind
    BY <1>10, HopsStay DEF ContractInv, Past, ForkInv, Seen, Bind, End, walk
  <1>11. CASE GiveUp
    BY <1>11, HopsStay DEF ContractInv, Past, ForkInv, Seen, GiveUp, End, walk
  <1>12. CASE Reorg
    BY <1>12, HopsStay DEF ContractInv, Past, Seen, Reorg, walk
  <1>13. CASE Finished \/ UNCHANGED vars
    BY <1>13, HopsStay DEF ContractInv, Past, Seen, Finished, vars
  <1>14. QED
    BY <1>1, <1>2, <1>3, <1>4, <1>5, <1>6, <1>7, <1>8, <1>9, <1>10, <1>11,
       <1>12, <1>13 DEF Next, Step

LEMMA PathInvariant == Spec => []PathInv
  <1>1. Init => PathInv
    BY DEF Init, PathInv, HopsInv, ContractInv, Past
  <1>2. QED
    BY <1>1, NextKeepsPathInv, ResolverTypes, ForkInvariant, PTL DEF Spec

(* At a single block, what was read is what that block holds.              *)
LEMMA SeenHolds ==
    ASSUME TypeOK, OneBlock, Resolved, NEW what, NEW at, NEW value,
           Seen(reads, what, at, value)
    PROVE  Holds(what, at, value)
  BY DEF TypeOK, Answer, OneBlock, Seen, Holds

(* A resolved chain of proxies is, hop by hop, the one the pinned block    *)
(* holds, and ends at the bytecode that Sourcify verified.                 *)
THEOREM ResolvedPath == Spec => []PathSound
  <1>1. TypeOK /\ OneBlock /\ PathInv => PathSound
    <2> SUFFICES ASSUME TypeOK, OneBlock, PathInv, Resolved PROVE PathSound
      BY DEF PathSound
    <2>1. \A what, at, value : Seen(reads, what, at, value) => Holds(what, at, value)
      BY SeenHolds
    <2>2. \A h : HopSeen(reads, h) => HopHolds(h)
      BY <2>1 DEF HopSeen, HopHolds
    <2>3. Past
      BY DEF Resolved, Past
    <2>4. QED
      BY <2>1, <2>2, <2>3 DEF PathSound, PathInv, HopsInv, ContractInv
  <1>2. QED
    BY <1>1, ResolverTypes, ResolvedAtOneBlock, PathInvariant, PTL

(* A deployment the hosted API clears is no proxy at the pinned block and  *)
(* runs the verified, dispatch-free bytecode itself.                       *)
THEOREM ClearedDeployment == Spec => []ClearedIsDirect
  <1>1. TypeOK /\ OneBlock /\ PathInv => ClearedIsDirect
    <2> SUFFICES ASSUME TypeOK, OneBlock, PathInv, outcome = "cleared"
                 PROVE  ClearedIsDirect
      BY DEF ClearedIsDirect
    <2>1. \A what, at, value : Seen(reads, what, at, value) => Holds(what, at, value)
      BY SeenHolds DEF Resolved
    <2>2. /\ hops = <<>> /\ current = Target /\ slot = None /\ source = code
          /\ code \in Codes \ DispatchCodes
      BY DEF PathInv, HopsInv, ContractInv, Past, TypeOK
    <2>3. QED
      BY <2>1, <2>2 DEF ClearedIsDirect, PathInv, ContractInv, Past
  <1>2. QED
    BY <1>1, ResolverTypes, ResolvedAtOneBlock, PathInvariant, PTL
-----------------------------------------------------------------------------
(* Where the walk was: no contract twice, and never at the one it is to    *)
(* read or at the beacon it is about to ask.                               *)
Entered == {hops[i].proxy : i \in 1..Len(hops)}
CycleInv ==
    /\ \A i, j \in 1..Len(hops) :
          /\ hops[i].proxy = hops[j].proxy => i = j
          /\ i <= j => hops[i].proxy # hops[j].beacon
    /\ pc # "done" => current \notin Entered
    /\ pc \in {"beaconCode", "beaconImpl"} => beacon \notin Visited

(* A step that records no hop; it may go on to a beacon never visited.     *)
LEMMA CycleStays ==
    ASSUME CycleInv, UNCHANGED <<current, hops>>,
           pc' # "done" => pc # "done",
           pc' \in {"beaconCode", "beaconImpl"} => beacon' \notin Visited
    PROVE  CycleInv'
  <1>1. Visited' = Visited /\ Entered' = Entered
    BY DEF Visited, Entered
  <1>2. QED
    BY <1>1 DEF CycleInv

(* A hop, by a slot or by a beacon that the walk was not at.               *)
LEMMA FollowKeepsCycleInv ==
    ASSUME TypeOK, CycleInv, pc # "done",
           NEW b \in Addrs \cup {None}, NEW a \in Addrs, Follow(b, a),
           b = None \/ b \notin Visited
    PROVE  CycleInv'
  <1> DEFINE h == [proxy |-> current, beacon |-> b, impl |-> a]
  <1>1. hops \in Seq(Hop) /\ hops' = Append(hops, h) /\ current' = a
        /\ h.proxy = current /\ h.beacon = b /\ current \in Addrs
    BY DEF TypeOK, Follow
  <1>2. /\ Len(hops') = Len(hops) + 1 /\ Len(hops) \in Nat
        /\ hops'[Len(hops) + 1] = h
        /\ \A i \in 1..Len(hops) : hops'[i] = hops[i]
    BY <1>1
  <1>3. /\ \A i \in 1..Len(hops) : hops[i].proxy # current /\ hops[i].proxy # b
        /\ current # b
    <2>1. \A i \in 1..Len(hops) : hops[i].proxy \in Entered
      BY DEF Entered
    <2>2. \A i \in 1..Len(hops) : hops[i].proxy \in Addrs
      <3>1. \A i \in 1..Len(hops) : hops[i] \in Hop
        BY <1>1
      <3>2. QED
        BY <3>1 DEF Hop
    <2>3. current \notin Entered /\ (b = None \/ (b \notin Entered /\ b # current))
      BY DEF CycleInv, Visited, Entered
    <2>4. QED
      BY <1>1, <2>1, <2>2, <2>3, ResolverAssumption
  <1>4. ASSUME NEW i \in 1..Len(hops'), NEW j \in 1..Len(hops')
        PROVE  /\ hops'[i].proxy = hops'[j].proxy => i = j
               /\ i <= j => hops'[i].proxy # hops'[j].beacon
    <2>1. (i \in 1..Len(hops) \/ i = Len(hops) + 1) /\ (j \in 1..Len(hops) \/ j = Len(hops) + 1)
      BY <1>2
    <2>2. CASE i \in 1..Len(hops) /\ j \in 1..Len(hops)
      BY <1>2, <2>2 DEF CycleInv
    <2>3. CASE i \in 1..Len(hops) /\ j = Len(hops) + 1
      BY <1>1, <1>2, <1>3, <2>3
    <2>4. CASE i = Len(hops) + 1 /\ j \in 1..Len(hops)
      BY <1>1, <1>2, <1>3, <2>4
    <2>5. CASE i = Len(hops) + 1 /\ j = Len(hops) + 1
      BY <1>1, <1>2, <1>3, <2>5
    <2>6. QED
      BY <2>1, <2>2, <2>3, <2>4, <2>5
  <1>5. Entered' = Visited
    <2>1. \A i \in 1..Len(hops') : hops'[i].proxy \in Visited
      <3>1. ASSUME NEW i \in 1..Len(hops) PROVE hops'[i].proxy \in Visited
        BY <1>2, <3>1 DEF Visited
      <3>2. hops'[Len(hops) + 1].proxy \in Visited
        BY <1>1, <1>2 DEF Visited
      <3>3. QED
        BY <1>2, <3>1, <3>2
    <2>2. current \in Entered'
      <3>1. Len(hops) + 1 \in 1..Len(hops') /\ hops'[Len(hops) + 1].proxy = current
        BY <1>1, <1>2
      <3>2. QED
        BY <3>1 DEF Entered
    <2>3. ASSUME NEW i \in 1..Len(hops) PROVE hops[i].proxy \in Entered'
      <3>1. i \in 1..Len(hops') /\ hops'[i].proxy = hops[i].proxy
        BY <1>2, <2>3
      <3>2. QED
        BY <3>1 DEF Entered
    <2>4. QED
      BY <2>1, <2>2, <2>3 DEF Visited, Entered
  <1>6. /\ pc' # "done" => current' \notin Visited
        /\ pc' \notin {"beaconCode", "beaconImpl"}
    BY <1>1 DEF Follow, End, GoTo
  <1>7. QED
    BY <1>4, <1>5, <1>6 DEF CycleInv

LEMMA NextKeepsCycleInv == TypeOK /\ CycleInv /\ [Next]_vars => CycleInv'
  <1> SUFFICES ASSUME TypeOK, CycleInv, [Next]_vars PROVE CycleInv'
    OBVIOUS
  <1>1. CASE \E same \in BOOLEAN : ChainId(same)
    BY <1>1, CycleStays DEF ChainId, End, GoTo, walk
  <1>2. CASE Finalized \/ ReadCode \/ ReadSlot
    BY <1>2, CycleStays DEF Finalized, ReadCode, ReadSlot, End, GoTo, walk
  <1>3. CASE ReadBeacon
    <2>1. CASE (Ambiguous \/ Direct \/ Deep \/ ByBeacon) /\ UNCHANGED <<current, hops>>
      BY <1>3, <2>1, CycleStays
         DEF ReadBeacon, Ambiguous, Direct, Deep, ByBeacon, End, GoTo
    <2>2. CASE BySlot
      BY <1>3, <2>2, FollowKeepsCycleInv DEF ReadBeacon, BySlot, TypeOK
    <2>3. QED
      BY <1>3, <2>1, <2>2 DEF ReadBeacon
  <1>4. CASE ReadBeaconCode
    BY <1>4, CycleStays DEF ReadBeaconCode, CycleInv, End, GoTo, walk
  <1>5. CASE ReadBeaconImpl
    <2>1. PICK a \in Answers("impl", beacon, Addrs) :
             \/ End("cycle") /\ UNCHANGED <<current, hops>>
             \/ Follow(beacon, a)
      BY <1>5 DEF ReadBeaconImpl
    <2>2. a \in Addrs /\ beacon \in Addrs /\ pc = "beaconImpl" /\ beacon \notin Visited
      BY <1>5, AnswersTyped DEF ReadBeaconImpl, TypeOK, CycleInv
    <2>3. QED
      BY <2>1, <2>2, CycleStays, FollowKeepsCycleInv DEF End
  <1>6. CASE \E c \in Codes, identified, verified, abi \in BOOLEAN :
               Sourcify(c, identified, verified, abi)
    BY <1>6, CycleStays DEF Sourcify, End, GoTo, walk
  <1>7. CASE Confirm \/ Bind \/ GiveUp
    BY <1>7, CycleStays DEF Confirm, Bind, GiveUp, End, GoTo, walk
  <1>8. CASE Reorg \/ Finished \/ UNCHANGED vars
    BY <1>8, CycleStays DEF Reorg, Finished, vars, walk, CycleInv
  <1>9. QED
    BY <1>1, <1>2, <1>3, <1>4, <1>5, <1>6, <1>7, <1>8 DEF Next, Step

(* The walk of resolve_verified_source() never comes back to a contract,   *)
(* by slots, beacons or both, and ends within MAX_PROXY_HOPS.              *)
THEOREM WalkNeverReturns == Spec => []NoCycle
  <1>1. Init => CycleInv
    BY DEF Init, CycleInv, Entered
  <1>2. CycleInv /\ BudgetInv => NoCycle
    BY DEF CycleInv, BudgetInv, NoCycle, Entered
  <1>3. QED
    BY <1>1, <1>2, NextKeepsCycleInv, BudgetInvariant, ResolverTypes, PTL DEF Spec
=============================================================================
