------------------------------ MODULE Verdict -------------------------------
(***************************************************************************)
(* The verdict of lucent/preflight.py: check_descriptor(), which assesses  *)
(* a descriptor, and preflight_transaction(), which assesses one call with *)
(* it, from the findings of scripts/audit.py, scripts/comprehend.py,       *)
(* scripts/danger.py and _presentation_binding().                          *)
(*                                                                         *)
(* A descriptor is a set of entries, one for each signable function of the *)
(* ABI: the function, with at most one argument of each type, which names  *)
(* it, and its format if it has one.  Function names stand for the         *)
(* families the analyzers recognise.  A format has at most one field per   *)
(* path, as validate_descriptor() demands; the path "foreign" is one that  *)
(* does not resolve.  Field format "reference" is any one the v1 profile   *)
(* does not render itself, or an argument's with parameters.  Text is what *)
(* the policy reads in it: the intent it states, whether a label names the *)
(* role.  Descriptors and calls have passed validation: what is rejected   *)
(* as malformed gets no verdict.                                           *)
(***************************************************************************)
EXTENDS Naturals

CONSTANTS
    None,
    Descriptors    \* what is assessed: sets of entries

ArgTypes == {"address", "uint", "bool", "bytes", "list"}
Paths == ArgTypes \cup {"value", "to", "foreign"}

(* uint is the name of the uint argument.                                  *)
Function ==
    [name : {"transfer", "withdraw", "approve", "setApprovalForAll",
             "grantRole", "permit", "execute", "other"},
     mut : {"payable", "nonpayable", "legacyPayable", "unstated"},
     args : SUBSET ArgTypes,
     uint : {"amount", "tokenId", "token_id"}]
Field ==
    [visible : {"always", "default", "if", "never"},
     format : {"addressName", "raw", "amount", "reference"},
     named : BOOLEAN]
Format ==
    [intent : {"move", "grant", "revoke", "nft", "other", "none"},
     long : BOOLEAN,
     fields : [Paths -> Field \cup {None}]]
Entry == [fn : Function, fmt : Format \cup {None}]

(* The decoded calldata: the value sent, the uint, the bool, and whether a *)
(* byte string is longer than its preview.                                 *)
Call == [value : {0, 1}, uint : {"zero", "some", "max"}, bool : BOOLEAN,
         opaque : BOOLEAN]

(* A verdict: the gate and the stable code of the reason.                  *)
Verdicts ==
    [gate : {"block", "review", "safe_to_present"},
     code : {"NO_SIGNABLE_FUNCTIONS", "NONPAYABLE_WITH_VALUE",
             "MISSING_CLEAR_SIGNING_FORMAT",
             "PRESENTATION_CRITICAL", "DANGER_CRITICAL", "PRESENTATION_UNBOUND",
             "UNLIMITED_APPROVAL", "COMPREHENSION_REVIEW",
             "PRESENTATION_REVIEW", "DANGER_REVIEW", "PRESENTATION_CLEAR"}]

ASSUME VerdictAssumption ==
    /\ Descriptors \subseteq SUBSET Entry
    /\ None \notin Format \cup Field \cup Entry \cup Call \cup Verdicts

VARIABLES
    descriptor,   \* the descriptor
    checked,      \* check_descriptor()'s verdict, once asked
    entry,        \* the entry that the call's selector resolves to
    call,         \* the call assessed
    verdict       \* preflight_transaction()'s verdict on it

vars == <<descriptor, checked, entry, call, verdict>>
-----------------------------------------------------------------------------
Shown(f) == f # None /\ f.visible \in {"always", "default"}
ShownLoosely(f) == f # None /\ f.visible # "never"
Payable(fn) == fn.mut \in {"payable", "legacyPayable"}
Moves(fn) == fn.name \in {"transfer", "withdraw"} \/ fn.mut = "payable"

(* audit.audit(), but for findings below MEDIUM, which no gate reads.      *)
AuditFindings(fn, fmt) ==
    IF fmt = None THEN {"HIGH"}
    ELSE {s \in {"CRITICAL", "HIGH", "MEDIUM"} :
            \/ s = "CRITICAL" /\ fn.mut = "payable" /\ fmt.fields["value"] = None
            \/ s = "HIGH" /\ \/ fmt.intent = "none"
                             \/ fn.args # {} /\ \A p \in Paths :
                                                  ~ShownLoosely(fmt.fields[p])
                             \/ /\ "address" \in fn.args
                                /\ ShownLoosely(fmt.fields["address"])
                                /\ fmt.fields["address"].format = "raw"
            \/ s = "MEDIUM" /\ fmt.long}

(* comprehend.classify(): the tier, for any call of the function.          *)
RecipientRaw(fn, fmt) ==
    /\ "address" \in fn.args
    /\ fmt # None =>
         LET f == fmt.fields["address"]
         IN  ~ShownLoosely(f) \/ f.format # "addressName"
Tier(fn, fmt) ==
    IF fn.name \in {"setApprovalForAll", "grantRole"} THEN "CRITICAL"
    ELSE IF /\ Moves(fn) /\ fn.name \notin {"approve", "permit"}
            /\ ~RecipientRaw(fn, fmt) THEN "MEDIUM"
    ELSE "HIGH"

(* danger.assess(): the severity of what the function can do.              *)
DangerFindings(fn) ==
    {s \in {"CRITICAL", "HIGH", "MEDIUM"} :
        \/ s = "CRITICAL" /\ fn.name = "execute"
        \/ s = "HIGH" /\ fn.name \in {"setApprovalForAll", "grantRole"}
        \/ s = "MEDIUM" /\ fn.name = "withdraw" /\ "address" \in fn.args}

(* _apply_call_dependent_comprehension() and _danger(): what the calldata  *)
(* of an approval changes.                                                 *)
OperatorRevoked(fn, c) ==
    fn.name = "setApprovalForAll" /\ "bool" \in fn.args /\ ~c.bool
AllowanceIs(fn, c, amount) ==
    /\ fn.name = "approve" /\ "uint" \in fn.args /\ fn.uint # "tokenId"
    /\ c.uint = amount
RevokedAnyApprove(fn, c) ==         \* mutant: token identifiers are amounts
    \/ OperatorRevoked(fn, c)
    \/ fn.name = "approve" /\ c.uint # "max"
Revoked(fn, c) == OperatorRevoked(fn, c) \/ AllowanceIs(fn, c, "zero")
Unlimited(fn, c) == AllowanceIs(fn, c, "max")
CallTier(fn, fmt, c) ==
    IF Revoked(fn, c) THEN "LOW"
    ELSE IF Unlimited(fn, c) THEN "CRITICAL"
    ELSE Tier(fn, fmt)
CallDanger(fn, c) ==
    IF OperatorRevoked(fn, c) THEN DangerFindings(fn) \ {"HIGH"}
    ELSE DangerFindings(fn)
-----------------------------------------------------------------------------
(* _expected_input_roles().                                                *)
IsNft(fn) == fn.name = "approve" /\ "uint" \in fn.args /\ fn.uint # "amount"
Roles(fn) ==
    fn.args \cap
    CASE fn.name = "approve"           -> {"address", "uint"}
      [] fn.name = "setApprovalForAll" ->
             {"address", "bool"} \cup (IF Moves(fn) THEN {"uint"} ELSE {})
      [] OTHER -> IF Moves(fn) THEN {"address", "uint"} ELSE {}

(* _intent_matches_known_action().  Without a call, a grant and a          *)
(* revocation are both acceptable.                                         *)
Approvals(c, revocation) ==
    IF c = None THEN {"grant", "revoke"}
    ELSE IF revocation THEN {"revoke"} ELSE {"grant"}
IntentMatches(fn, fmt, c) ==
    CASE fn.name = "transfer" ->
             {"address", "uint"} \subseteq fn.args /\ fmt.intent = "move"
      [] fn.name = "approve" ->
             /\ {"address", "uint"} \subseteq fn.args
             /\ fmt.intent \in IF IsNft(fn) THEN {"nft"}
                               ELSE Approvals(c, c # None /\ c.uint = "zero")
      [] fn.name = "setApprovalForAll" ->
             /\ {"address", "bool"} \subseteq fn.args
             /\ fmt.intent \in Approvals(c, c # None /\ ~c.bool)
      [] OTHER -> TRUE

(* _format_matches_abi(), and the formats v1 clears.                       *)
Renders(p, format) ==
    CASE p \in {"address", "to"} -> format = "addressName"
      [] p = "uint"  -> format \in {"raw", "amount"}
      [] p = "value" -> format = "amount"
      [] OTHER -> format = "raw"

(* The loop over the fields of _presentation_binding().  A path that does  *)
(* not resolve is a finding even when it is never visible.                 *)
Resolves(fn, p) == p \in fn.args \cup {"value", "to"}
Misread(fn, p, f) ==
    Shown(f) /\ \/ ~Renders(p, f.format)
                \/ p \in Roles(fn) \cup {"value", "to"} /\ ~f.named
BadField(fn, p, f) == f # None /\ (~Resolves(fn, p) \/ Misread(fn, p, f))

(* The loop over the inputs: an argument must be a scalar, shown without a *)
(* finding of its own.                                                     *)
CoversLoosely(fn, p, f) ==       \* mutant: conditional fields cover as well
    p # "list" /\ ShownLoosely(f) /\ ~Misread(fn, p, f)
Covers(fn, p, f) == p # "list" /\ Shown(f) /\ ~Misread(fn, p, f)

PinsValue(f) == f # None /\ f.visible = "always" /\ f.format = "amount"
Unbound(fn, fmt, value, c) ==
    /\ fmt # None
    /\ \/ ~IntentMatches(fn, fmt, c)
       \/ \E p \in Paths : BadField(fn, p, fmt.fields[p])
       \/ \E p \in fn.args : ~Covers(fn, p, fmt.fields[p])
       \/ value > 0 /\ ~PinsValue(fmt.fields["value"])
       \/ c # None /\ c.opaque /\ "bytes" \in fn.args
-----------------------------------------------------------------------------
Block(code) == [gate |-> "block", code |-> code]
Review(code) == [gate |-> "review", code |-> code]
Clear == [gate |-> "safe_to_present", code |-> "PRESENTATION_CLEAR"]

(* What the three analyzers report of a whole descriptor.                  *)
AuditOf(d) == UNION {AuditFindings(e.fn, e.fmt) : e \in d}
DangerOf(d) == UNION {DangerFindings(e.fn) : e \in d}
TiersOf(d) == {Tier(e.fn, e.fmt) : e \in d}

(* overall_verdict(), and its override by check_descriptor().              *)
OverallVerdict(d) ==
    IF d = {} THEN Block("NO_SIGNABLE_FUNCTIONS")
    ELSE IF "CRITICAL" \in AuditOf(d) THEN Block("PRESENTATION_CRITICAL")
    ELSE IF "CRITICAL" \in DangerOf(d) THEN Block("DANGER_CRITICAL")
    ELSE IF {"HIGH", "MEDIUM"} \cap AuditOf(d) # {} THEN Review("PRESENTATION_REVIEW")
    ELSE IF {"CRITICAL", "HIGH"} \cap TiersOf(d) # {} THEN Review("COMPREHENSION_REVIEW")
    ELSE IF {"HIGH", "MEDIUM"} \cap DangerOf(d) # {} THEN Review("DANGER_REVIEW")
    ELSE Clear

PotentialValueNone(fn) == 0                 \* mutant: assumes no value
PotentialValue(fn) == IF Payable(fn) THEN 1 ELSE 0
DescriptorVerdict(d) ==
    IF \E e \in d : Unbound(e.fn, e.fmt, PotentialValue(e.fn), None)
    THEN Block("PRESENTATION_UNBOUND")
    ELSE OverallVerdict(d)

(* _call_verdict().                                                        *)
AnalyzerVerdictNoTier(fn, fmt, c) ==        \* mutant: forgets the tier
    LET audit == AuditFindings(fn, fmt)
        danger == CallDanger(fn, c)
    IN  IF fmt = None THEN Block("MISSING_CLEAR_SIGNING_FORMAT")
        ELSE IF "CRITICAL" \in audit THEN Block("PRESENTATION_CRITICAL")
        ELSE IF "CRITICAL" \in danger THEN Block("DANGER_CRITICAL")
        ELSE IF {"HIGH", "MEDIUM"} \cap audit # {} THEN Review("PRESENTATION_REVIEW")
        ELSE IF {"HIGH", "MEDIUM"} \cap danger # {} THEN Review("DANGER_REVIEW")
        ELSE Clear
AnalyzerVerdict(fn, fmt, c) ==
    LET audit == AuditFindings(fn, fmt)
        danger == CallDanger(fn, c)
    IN  IF fmt = None THEN Block("MISSING_CLEAR_SIGNING_FORMAT")
        ELSE IF "CRITICAL" \in audit THEN Block("PRESENTATION_CRITICAL")
        ELSE IF "CRITICAL" \in danger THEN Block("DANGER_CRITICAL")
        ELSE IF CallTier(fn, fmt, c) \in {"CRITICAL", "HIGH"}
             THEN Review(IF Unlimited(fn, c) THEN "UNLIMITED_APPROVAL"
                                             ELSE "COMPREHENSION_REVIEW")
        ELSE IF {"HIGH", "MEDIUM"} \cap audit # {} THEN Review("PRESENTATION_REVIEW")
        ELSE IF {"HIGH", "MEDIUM"} \cap danger # {} THEN Review("DANGER_REVIEW")
        ELSE Clear

(* preflight_transaction(): _value_verdict() first, then what the          *)
(* analyzers block, then _binding_verdict(), then the analyzers.           *)
CallVerdictReviewFirst(fn, fmt, c) ==    \* mutant: any analyzer finding wins
    LET analyzers == AnalyzerVerdict(fn, fmt, c) IN
    IF c.value > 0 /\ ~Payable(fn) THEN Block("NONPAYABLE_WITH_VALUE")
    ELSE IF analyzers # Clear THEN analyzers
    ELSE IF Unbound(fn, fmt, c.value, c) THEN Block("PRESENTATION_UNBOUND")
    ELSE analyzers
CallVerdict(fn, fmt, c) ==
    LET analyzers == AnalyzerVerdict(fn, fmt, c) IN
    IF c.value > 0 /\ ~Payable(fn) THEN Block("NONPAYABLE_WITH_VALUE")
    ELSE IF analyzers.gate = "block" THEN analyzers
    ELSE IF Unbound(fn, fmt, c.value, c) THEN Block("PRESENTATION_UNBOUND")
    ELSE analyzers
-----------------------------------------------------------------------------
CheckDescriptor ==
    /\ checked = None
    /\ checked' = DescriptorVerdict(descriptor)
    /\ UNCHANGED <<descriptor, entry, call, verdict>>

(* Data is fixed for the arguments a function does not have.               *)
CallsOf(fn) ==
    {c \in Call :
        /\ c.uint # "some" => "uint" \in fn.args
        /\ ~c.bool => "bool" \in fn.args
        /\ c.opaque => "bytes" \in fn.args}
PreflightTransaction(e, c) ==
    /\ verdict = None
    /\ c \in CallsOf(e.fn)
    /\ entry' = e /\ call' = c
    /\ verdict' = CallVerdict(e.fn, e.fmt, c)
    /\ UNCHANGED <<descriptor, checked>>

(* Both questions were asked, as far as there is a function to call.       *)
Finished ==
    /\ checked # None /\ (verdict # None \/ descriptor = {})
    /\ UNCHANGED vars

Init ==
    /\ descriptor \in Descriptors
    /\ checked = None /\ entry = None /\ call = None /\ verdict = None

Next ==
    \/ CheckDescriptor
    \/ \E e \in descriptor, c \in Call : PreflightTransaction(e, c)
    \/ Finished

Spec == Init /\ [][Next]_vars
-----------------------------------------------------------------------------
(* Types; a verdict is there exactly when a call was assessed.             *)
TypeOK ==
    /\ descriptor \subseteq Entry
    /\ checked \in Verdicts \cup {None}
    /\ entry \in Entry \cup {None} /\ call \in Call \cup {None}
    /\ verdict \in Verdicts \cup {None}
    /\ (verdict = None) = (call = None) /\ (call = None) = (entry = None)

(* Assessed is the case in which a call has its verdict.                   *)
Assessed == verdict # None
Selected == entry.fn
Screen == entry.fmt
Cleared == Assessed /\ verdict.gate = "safe_to_present"

(* The policy table of docs/HOSTED-API.md: whatever the order in which the *)
(* verdict functions look at the findings, the gate is that of the worst   *)
(* condition that holds, so no finding hides behind a milder one.          *)
Blocks ==
    \/ Screen = None
    \/ call.value > 0 /\ ~Payable(Selected)
    \/ Unbound(Selected, Screen, call.value, call)
    \/ "CRITICAL" \in AuditFindings(Selected, Screen) \cup CallDanger(Selected, call)
Reviews ==
    \/ CallTier(Selected, Screen, call) \in {"CRITICAL", "HIGH"}
    \/ {"HIGH", "MEDIUM"} \cap
          (AuditFindings(Selected, Screen) \cup CallDanger(Selected, call)) # {}
WorstFindingDecides ==
    Assessed =>
        verdict.gate = IF Blocks THEN "block"
                       ELSE IF Reviews THEN "review"
                       ELSE "safe_to_present"

(* A call is cleared only on a screen that shows all of it, in whatever    *)
(* way the four analyzers shared that out: every argument is a scalar with *)
(* a field that is always there, addresses as names, what has a role under *)
(* the name of that role, and the value that is sent pinned as an amount.  *)
ShowsArgument(fn, p, f) ==
    /\ p # "list" /\ f # None
    /\ f.visible \in {"always", "default"} /\ f.format # "reference"
    /\ p = "address" => f.format = "addressName"
    /\ p \in Roles(fn) => f.named
ShowsValue(f) ==
    f # None /\ f.visible = "always" /\ f.format = "amount" /\ f.named
ClearShowsCall ==
    Cleared =>
        /\ \A p \in Selected.args : ShowsArgument(Selected, p, Screen.fields[p])
        /\ call.value > 0 => ShowsValue(Screen.fields["value"])

(* The calls that give another party authority: an allowance above zero,   *)
(* an NFT whatever its identifier, an operator, a role or a permit.        *)
GrantsAuthority(fn, c) ==
    \/ fn.name \in {"grantRole", "permit"}
    \/ fn.name = "setApprovalForAll" /\ ("bool" \in fn.args => c.bool)
    \/ /\ fn.name = "approve"
       /\ "uint" \in fn.args => IsNft(fn) \/ c.uint # "zero"
GrantsTokenZero(fn, c) ==
    fn.name = "approve" /\ fn.uint = "token_id" /\ c.uint = "zero"

(* Calldata lowers the tier of an approval, and a screen that says the     *)
(* right thing clears it: of the calls that grant authority that happens   *)
(* to one only, the approval of NFT 0 by a function that spells its        *)
(* argument token_id.  _apply_call_dependent_comprehension() looks for     *)
(* "tokenid" and takes that zero for an allowance taken back, while the    *)
(* screen says "approve nft".  What else is cleared moves value, or takes  *)
(* authority back on a screen that says so.                                *)
ClearedGrantIsTokenZero ==
    Cleared =>
        IF GrantsAuthority(Selected, call)
        THEN GrantsTokenZero(Selected, call) /\ Screen.intent = "nft"
        ELSE \/ Moves(Selected) /\ Selected.name \notin {"approve", "setApprovalForAll"}
             \/ Screen.intent = "revoke"

(* What check_descriptor() told the author holds for the calls of every    *)
(* function, however many there are: when the descriptor is not blocked, a *)
(* call with a format is blocked only for what it alone brings, value the  *)
(* function does not take, bytes too long to show or an intent its data    *)
(* contradicts; and a call is judged more mildly than the descriptor only  *)
(* because it revokes, leaves a payable function unpaid, or another        *)
(* function alone deserves what was said of all.                           *)
Rank(v) == IF v.gate = "block" THEN 2 ELSE IF v.gate = "review" THEN 1 ELSE 0
DescriptorStandsForCalls ==
    Assessed /\ checked # None =>
        /\ checked.gate # "block" /\ Screen # None /\ verdict.gate = "block" =>
              \/ verdict.code = "NONPAYABLE_WITH_VALUE"
              \/ /\ verdict.code = "PRESENTATION_UNBOUND"
                 /\ call.opaque \/ ~IntentMatches(Selected, Screen, call)
        /\ Rank(verdict) < Rank(checked) =>
              \/ Revoked(Selected, call)
              \/ Payable(Selected) /\ call.value = 0
              \/ \E e \in descriptor \ {entry} :
                    Rank(DescriptorVerdict({e})) = Rank(checked)

(* A token identifier is not an allowance: tests/test_preflight.py has     *)
(* test_erc721_max_token_id_is_not_called_an_unlimited_allowance.          *)
TokenIdIsNoAllowance ==
    Assessed /\ IsNft(Selected) => verdict.code # "UNLIMITED_APPROVAL"
=============================================================================
