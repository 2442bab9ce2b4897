--------------------------- MODULE VerdictProofs ----------------------------
(***************************************************************************)
(* Theorems about Verdict, for every set of descriptors.  Consistent ties  *)
(* each verdict to what it was computed from; what the verdict functions   *)
(* compute is stated by the lemmas before it.                              *)
(***************************************************************************)
EXTENDS Verdict, TLAPS

(* Both entry points return verdicts.                                      *)
LEMMA VerdictTypes ==
    ASSUME NEW fn, NEW fmt, NEW c, NEW d
    PROVE  /\ CallVerdict(fn, fmt, c) \in Verdicts
           /\ DescriptorVerdict(d) \in Verdicts
<1>1. AnalyzerVerdict(fn, fmt, c) \in Verdicts
    BY DEF AnalyzerVerdict, Verdicts, Block, Review, Clear
<1>2. OverallVerdict(d) \in Verdicts
    BY DEF OverallVerdict, Verdicts, Block, Review, Clear
<1>3. /\ Block("NONPAYABLE_WITH_VALUE") \in Verdicts
      /\ Block("PRESENTATION_UNBOUND") \in Verdicts
    BY DEF Verdicts, Block
<1> QED
    BY <1>1, <1>2, <1>3 DEF CallVerdict, DescriptorVerdict

(* _call_verdict() by the gate: the order of its tests does not matter.    *)
LEMMA AnalyzerGate ==
    ASSUME NEW fn, NEW fmt, NEW c
    PROVE  LET audit == AuditFindings(fn, fmt)
               danger == CallDanger(fn, c)
               v == AnalyzerVerdict(fn, fmt, c)
           IN  /\ v.gate = "block" <=>
                     fmt = None \/ "CRITICAL" \in audit \cup danger
               /\ v.gate = "safe_to_present" =>
                     /\ CallTier(fn, fmt, c) \notin {"CRITICAL", "HIGH"}
                     /\ {"HIGH", "MEDIUM"} \cap (audit \cup danger) = {}
               /\ v.gate = "review" =>
                     \/ CallTier(fn, fmt, c) \in {"CRITICAL", "HIGH"}
                     \/ {"HIGH", "MEDIUM"} \cap (audit \cup danger) # {}
               /\ v.gate \in {"block", "review", "safe_to_present"}
    BY DEF AnalyzerVerdict, Block, Review, Clear

(* preflight_transaction() by the gate.                                    *)
LEMMA CallGate ==
    ASSUME NEW fn, NEW fmt, NEW c
    PROVE  LET v == CallVerdict(fn, fmt, c)
               w == AnalyzerVerdict(fn, fmt, c)
           IN  /\ v.gate = "block" <=>
                     \/ c.value > 0 /\ ~Payable(fn)
                     \/ w.gate = "block"
                     \/ Unbound(fn, fmt, c.value, c)
               /\ v.gate # "block" => v = w
               /\ v.gate = "block" /\ w.gate # "block" =>
                     \/ v.code = "NONPAYABLE_WITH_VALUE"
                     \/ /\ v.code = "PRESENTATION_UNBOUND"
                        /\ Unbound(fn, fmt, c.value, c)
                        /\ c.value > 0 => Payable(fn)
    BY DEF CallVerdict, Block

(* What can be wrong with one entry, and what deserves a review.           *)
EntryBlocks(e) ==
    \/ Unbound(e.fn, e.fmt, PotentialValue(e.fn), None)
    \/ "CRITICAL" \in AuditFindings(e.fn, e.fmt) \cup DangerFindings(e.fn)
EntryReviews(e) ==
    \/ Tier(e.fn, e.fmt) \in {"CRITICAL", "HIGH"}
    \/ {"HIGH", "MEDIUM"} \cap (AuditFindings(e.fn, e.fmt) \cup DangerFindings(e.fn)) # {}

(* check_descriptor() by the gate: that of the worst entry, so that no     *)
(* number of good functions hides a bad one.                               *)
LEMMA DescriptorGate ==
    ASSUME NEW d
    PROVE  LET v == DescriptorVerdict(d)
           IN  /\ v.gate = "block" <=> d = {} \/ \E e \in d : EntryBlocks(e)
               /\ v.gate = "review" => \E e \in d : EntryReviews(e)
               /\ v.gate = "safe_to_present" => \A e \in d : ~EntryReviews(e)
               /\ v.gate \in {"block", "review", "safe_to_present"}
<1>1. /\ "CRITICAL" \in AuditOf(d) <=>
             \E e \in d : "CRITICAL" \in AuditFindings(e.fn, e.fmt)
      /\ {"HIGH", "MEDIUM"} \cap AuditOf(d) # {} <=>
             \E e \in d : {"HIGH", "MEDIUM"} \cap AuditFindings(e.fn, e.fmt) # {}
    BY DEF AuditOf
<1>2. /\ "CRITICAL" \in DangerOf(d) <=> \E e \in d : "CRITICAL" \in DangerFindings(e.fn)
      /\ {"HIGH", "MEDIUM"} \cap DangerOf(d) # {} <=>
             \E e \in d : {"HIGH", "MEDIUM"} \cap DangerFindings(e.fn) # {}
    BY DEF DangerOf
<1>3. {"CRITICAL", "HIGH"} \cap TiersOf(d) # {} <=>
          \E e \in d : Tier(e.fn, e.fmt) \in {"CRITICAL", "HIGH"}
    BY DEF TiersOf
<1>4. /\ (\E e \in d : EntryBlocks(e)) <=>
             \/ \E e \in d : Unbound(e.fn, e.fmt, PotentialValue(e.fn), None)
             \/ "CRITICAL" \in AuditOf(d) \/ "CRITICAL" \in DangerOf(d)
      /\ (\E e \in d : EntryReviews(e)) <=>
             \/ {"CRITICAL", "HIGH"} \cap TiersOf(d) # {}
             \/ {"HIGH", "MEDIUM"} \cap AuditOf(d) # {}
             \/ {"HIGH", "MEDIUM"} \cap DangerOf(d) # {}
    BY <1>1, <1>2, <1>3 DEF EntryBlocks, EntryReviews
<1> QED
    BY <1>4 DEF DescriptorVerdict, OverallVerdict, Block, Review, Clear

(* One of the entries alone deserves what is said of all of them.          *)
LEMMA WorstEntry ==
    ASSUME NEW d, d # {}
    PROVE  \E e \in d : DescriptorVerdict({e}).gate = DescriptorVerdict(d).gate
<1>1. CASE DescriptorVerdict(d).gate = "block"
  <2>1. PICK e \in d : EntryBlocks(e)
      BY <1>1, DescriptorGate
  <2> QED
      BY <1>1, <2>1, DescriptorGate
<1>2. CASE DescriptorVerdict(d).gate = "review"
  <2>1. PICK e \in d : EntryReviews(e)
      BY <1>2, DescriptorGate
  <2>2. ~EntryBlocks(e)
      BY <1>2, DescriptorGate
  <2>3. /\ DescriptorVerdict({e}).gate # "block"
        /\ DescriptorVerdict({e}).gate # "safe_to_present"
      BY <2>1, <2>2, DescriptorGate
  <2> QED
      BY <1>2, <2>3, DescriptorGate
<1>3. CASE DescriptorVerdict(d).gate = "safe_to_present"
  <2>1. PICK e \in d : TRUE
      OBVIOUS
  <2>2. ~EntryBlocks(e) /\ ~EntryReviews(e)
      BY <1>3, DescriptorGate
  <2>3. /\ DescriptorVerdict({e}).gate # "block"
        /\ DescriptorVerdict({e}).gate # "review"
      BY <2>2, DescriptorGate
  <2> QED
      BY <1>3, <2>3, DescriptorGate
<1> QED
    BY <1>1, <1>2, <1>3, DescriptorGate
-----------------------------------------------------------------------------
(* A verdict is that of the descriptor, and of the call that is recorded.  *)
Consistent ==
    /\ descriptor \in Descriptors
    /\ checked # None => checked = DescriptorVerdict(descriptor)
    /\ verdict # None => /\ entry \in descriptor
                        /\ call \in CallsOf(Selected)
                        /\ verdict = CallVerdict(Selected, Screen, call)

LEMMA Consistency == Spec => []Consistent
<1>1. Init => Consistent
    BY DEF Init, Consistent
<1>2. Consistent /\ [Next]_vars => Consistent'
  <2> SUFFICES ASSUME Consistent, [Next]_vars PROVE Consistent'
      OBVIOUS
  <2>1. CASE CheckDescriptor
      BY <2>1 DEF CheckDescriptor, Consistent, Selected, Screen
  <2>2. ASSUME NEW e \in descriptor, NEW c \in Call, PreflightTransaction(e, c)
        PROVE  Consistent'
      BY <2>2 DEF PreflightTransaction, Consistent, Selected, Screen
  <2>3. CASE UNCHANGED vars
      BY <2>3 DEF vars, Consistent, Selected, Screen
  <2> QED
      BY <2>1, <2>2, <2>3 DEF Next, Finished
<1> QED
    BY <1>1, <1>2, PTL DEF Spec

(* Both verdicts are well formed and say what they are about.              *)
THEOREM VerdictsAreTyped == Spec => []TypeOK
<1>1. Init => TypeOK
    BY VerdictAssumption DEF Init, TypeOK
<1>2. TypeOK /\ [Next]_vars => TypeOK'
  <2> SUFFICES ASSUME TypeOK, [Next]_vars PROVE TypeOK'
      OBVIOUS
  <2>1. CASE CheckDescriptor
      BY <2>1, VerdictTypes DEF CheckDescriptor, TypeOK
  <2>2. ASSUME NEW e \in descriptor, NEW c \in Call, PreflightTransaction(e, c)
        PROVE  TypeOK'
    <3>1. verdict' \in Verdicts /\ verdict' # None
        BY <2>2, VerdictTypes, VerdictAssumption DEF PreflightTransaction
    <3>2. e \in Entry
        BY DEF TypeOK
    <3> QED
        BY <2>2, <3>1, <3>2, VerdictAssumption DEF PreflightTransaction, TypeOK
  <2>3. CASE UNCHANGED vars
      BY <2>3 DEF vars, TypeOK
  <2> QED
      BY <2>1, <2>2, <2>3 DEF Next, Finished
<1> QED
    BY <1>1, <1>2, PTL DEF Spec

(* The policy table of docs/HOSTED-API.md, whatever the findings.          *)
THEOREM PolicyTable == Spec => []WorstFindingDecides
<1>1. Consistent => WorstFindingDecides
    BY AnalyzerGate, CallGate
    DEF Consistent, WorstFindingDecides, Assessed, Blocks, Reviews, Selected, Screen
<1> QED
    BY <1>1, Consistency, PTL
-----------------------------------------------------------------------------
(* What _presentation_binding() has established when it finds nothing.     *)
LEMMA BoundCall ==
    ASSUME NEW fn \in Function, NEW fmt, NEW c, fmt # None,
           ~Unbound(fn, fmt, c.value, c)
    PROVE  /\ IntentMatches(fn, fmt, c)
           /\ \A p \in fn.args : ShowsArgument(fn, p, fmt.fields[p])
           /\ c.value > 0 => ShowsValue(fmt.fields["value"])
<1>1. /\ IntentMatches(fn, fmt, c)
      /\ ~BadField(fn, "value", fmt.fields["value"])
      /\ \A p \in fn.args : Covers(fn, p, fmt.fields[p])
      /\ c.value > 0 => PinsValue(fmt.fields["value"])
    BY DEF Unbound, Paths
<1>2. ASSUME NEW p \in fn.args
      PROVE  ShowsArgument(fn, p, fmt.fields[p])
  <2>1. p \in ArgTypes
      BY DEF Function
  <2> QED
      BY <1>1, <2>1 DEF Covers, Misread, Shown, Renders, ArgTypes, ShowsArgument
<1>3. ASSUME c.value > 0
      PROVE  ShowsValue(fmt.fields["value"])
    BY <1>1, <1>3
    DEF PinsValue, BadField, Resolves, Misread, Shown, ShowsValue
<1> QED
    BY <1>1, <1>2, <1>3

(* A cleared call has passed every analyzer and the binding.               *)
LEMMA ClearedCall ==
    ASSUME Consistent, Cleared
    PROVE  /\ Selected \in Function /\ Screen # None
           /\ call \in Call /\ call # None
           /\ ~Unbound(Selected, Screen, call.value, call)
           /\ CallTier(Selected, Screen, call) \notin {"CRITICAL", "HIGH"}
<1>1. /\ Selected \in Function
      /\ call \in Call /\ call # None
    BY VerdictAssumption DEF Consistent, Cleared, Assessed, Selected, CallsOf, Entry
<1>2. /\ verdict = CallVerdict(Selected, Screen, call)
      /\ verdict.gate = "safe_to_present"
    BY DEF Consistent, Cleared, Assessed
<1> QED
    BY <1>1, <1>2, CallGate, AnalyzerGate

(* A cleared screen shows the whole call.                                  *)
THEOREM ClearMeansShown == Spec => []ClearShowsCall
<1>1. ASSUME Consistent, Cleared PROVE ClearShowsCall
  <2>1. /\ Selected \in Function /\ Screen # None
        /\ ~Unbound(Selected, Screen, call.value, call)
      BY <1>1, ClearedCall
  <2> QED
      BY <2>1, BoundCall DEF ClearShowsCall
<1>2. Consistent => ClearShowsCall
    BY <1>1 DEF ClearShowsCall
<1> QED
    BY <1>2, Consistency, PTL

(* No grant of authority is cleared, but that of NFT 0 under token_id.     *)
THEOREM GrantsButTokenZeroReviewed == Spec => []ClearedGrantIsTokenZero
<1>1. ASSUME Consistent, Cleared PROVE ClearedGrantIsTokenZero
  <2>1. /\ Selected \in Function /\ call # None
        /\ IntentMatches(Selected, Screen, call)
        /\ CallTier(Selected, Screen, call) \notin {"CRITICAL", "HIGH"}
      BY <1>1, ClearedCall, BoundCall
  <2>2. CASE Revoked(Selected, call)
      BY <2>1, <2>2 DEF ClearedGrantIsTokenZero, Revoked, OperatorRevoked,
         AllowanceIs, IntentMatches, Approvals, IsNft, GrantsAuthority,
         GrantsTokenZero, Function
  <2>3. CASE ~Revoked(Selected, call)
    <3>1. Tier(Selected, Screen) \notin {"CRITICAL", "HIGH"}
        BY <2>1, <2>3 DEF CallTier
    <3>2. /\ Moves(Selected)
          /\ Selected.name \notin {"setApprovalForAll", "grantRole", "approve", "permit"}
        BY <3>1 DEF Tier
    <3> QED
        BY <2>1, <3>2 DEF ClearedGrantIsTokenZero, GrantsAuthority, Function
  <2> QED
      BY <2>2, <2>3
<1>2. Consistent => ClearedGrantIsTokenZero
    BY <1>1 DEF ClearedGrantIsTokenZero
<1> QED
    BY <1>2, Consistency, PTL
-----------------------------------------------------------------------------
(* What an intent is accepted for with its data, it is accepted for        *)
(* without.                                                                *)
LEMMA IntentWithoutData ==
    ASSUME NEW fn, NEW fmt, NEW c, c # None, IntentMatches(fn, fmt, c)
    PROVE  IntentMatches(fn, fmt, None)
    BY DEF IntentMatches, Approvals

(* The descriptor's verdict against the verdicts on its calls.             *)
THEOREM DescriptorStands == Spec => []DescriptorStandsForCalls
<1>1. ASSUME Consistent, Assessed, checked # None
      PROVE  DescriptorStandsForCalls
  <2>1. /\ call \in Call /\ call # None /\ entry \in descriptor
        /\ verdict = CallVerdict(Selected, Screen, call)
        /\ checked = DescriptorVerdict(descriptor)
      BY <1>1, VerdictAssumption DEF Consistent, Assessed, CallsOf
  <2>2. CallDanger(Selected, call) \subseteq DangerFindings(Selected)
      BY DEF CallDanger
  <2>3. ASSUME checked.gate # "block", Screen # None, verdict.gate = "block"
        PROVE  \/ verdict.code = "NONPAYABLE_WITH_VALUE"
               \/ /\ verdict.code = "PRESENTATION_UNBOUND"
                  /\ call.opaque \/ ~IntentMatches(Selected, Screen, call)
    <3>1. /\ ~Unbound(Selected, Screen, PotentialValue(Selected), None)
          /\ "CRITICAL" \notin AuditFindings(Selected, Screen) \cup DangerFindings(Selected)
        BY <2>1, <2>3, DescriptorGate DEF EntryBlocks, Selected, Screen
    <3>2. AnalyzerVerdict(Selected, Screen, call).gate # "block"
        BY <2>2, <2>3, <3>1, AnalyzerGate
    <3>3. CASE /\ verdict.code = "PRESENTATION_UNBOUND"
               /\ Unbound(Selected, Screen, call.value, call)
               /\ call.value > 0 => Payable(Selected)
        BY <3>1, <3>3 DEF Unbound, PotentialValue
    <3> QED
        BY <2>1, <2>3, <3>2, <3>3, CallGate
  <2>4. ASSUME ~Revoked(Selected, call), ~(Payable(Selected) /\ call.value = 0)
        PROVE  Rank(verdict) >= Rank(DescriptorVerdict({entry}))
    <3> DEFINE own == DescriptorVerdict({entry})
    <3>1. /\ CallDanger(Selected, call) = DangerFindings(Selected)
          /\ CallTier(Selected, Screen, call) \in {Tier(Selected, Screen), "CRITICAL"}
        BY <2>4 DEF CallDanger, CallTier, Revoked
    <3>2. CASE own.gate = "block"
      <4>1. CASE "CRITICAL" \in AuditFindings(Selected, Screen)
                                  \cup DangerFindings(Selected)
        <5>1. verdict.gate = "block"
            BY <2>1, <3>1, <4>1, AnalyzerGate, CallGate
        <5> QED
            BY <5>1 DEF Rank
      <4>2. CASE Unbound(Selected, Screen, PotentialValue(Selected), None)
        <5>1. PotentialValue(Selected) > 0 => call.value > 0
            BY <2>1, <2>4 DEF PotentialValue, Call
        <5>2. Unbound(Selected, Screen, call.value, call)
            BY <2>1, <4>2, <5>1, IntentWithoutData DEF Unbound
        <5>3. verdict.gate = "block"
            BY <2>1, <5>2, CallGate
        <5> QED
            BY <5>3 DEF Rank
      <4>3. EntryBlocks(entry)
          BY <3>2, DescriptorGate
      <4> QED
          BY <4>1, <4>2, <4>3 DEF EntryBlocks, Selected, Screen
    <3>3. CASE own.gate = "review"
      <4>1. EntryReviews(entry)
          BY <3>3, DescriptorGate
      <4>2. AnalyzerVerdict(Selected, Screen, call).gate # "safe_to_present"
          BY <3>1, <4>1, AnalyzerGate DEF EntryReviews, Selected, Screen
      <4>3. verdict.gate \in {"block", "review"}
          BY <2>1, <4>2, AnalyzerGate, CallGate
      <4> QED
          BY <3>3, <4>3 DEF Rank
    <3>4. CASE own.gate = "safe_to_present"
        BY <3>4 DEF Rank
    <3> QED
        BY <3>2, <3>3, <3>4, DescriptorGate
  <2>5. ASSUME Rank(verdict) < Rank(checked),
               ~Revoked(Selected, call), ~(Payable(Selected) /\ call.value = 0)
        PROVE  \E e \in descriptor \ {entry} :
                  Rank(DescriptorVerdict({e})) = Rank(checked)
    <3>1. PICK e \in descriptor : DescriptorVerdict({e}).gate = checked.gate
        BY <2>1, WorstEntry
    <3>2. Rank(DescriptorVerdict({e})) = Rank(checked)
        BY <3>1 DEF Rank
    <3>3. /\ Rank(verdict) \in Nat /\ Rank(checked) \in Nat
          /\ Rank(DescriptorVerdict({entry})) \in Nat
        BY DEF Rank
    <3>4. e # entry
        BY <2>4, <2>5, <3>2, <3>3
    <3> QED
        BY <3>2, <3>4
  <2> QED
      BY <2>3, <2>5 DEF DescriptorStandsForCalls
<1>2. Consistent => DescriptorStandsForCalls
    BY <1>1 DEF DescriptorStandsForCalls
<1> QED
    BY <1>2, Consistency, PTL
=============================================================================
