------------------------------- MODULE Watch --------------------------------
(***************************************************************************)
(* scripts/watch.py: a job that compares each registry descriptor's live   *)
(* contract with a baseline kept in watch_state.json and exits non-zero    *)
(* when a screen has drifted.  The state file outlives the runs; a run's   *)
(* copy of it does not.  Contracts are upgraded at any time, the explorer  *)
(* may fail to name an implementation, any lookup may raise, and a run may *)
(* be killed anywhere, also while it rewrites the file.  Runs do not       *)
(* overlap: the job has no lock, and relies on its schedule for that.      *)
(***************************************************************************)
EXTENDS Naturals, FiniteSets, PythonNone

CONSTANTS
    N,           \* descriptors of the registry
    Code,        \* deployed contracts: proxies' shells and implementations
    Self,        \* 1..N -> Code: the address a descriptor binds
    Proxies,     \* the descriptors whose address is a proxy
    Impls,       \* the code proxies may be pointed at
    Abi,         \* ABIs, told apart by their bytes (abi_fingerprint)
    AbiOf,       \* Code -> Abi
    Sig,         \* function signatures
    Signable,    \* Abi -> SUBSET Sig: signable_sigs
    Covered,     \* 1..N -> SUBSET Sig: the descriptor's formats
    Sourcify,    \* the code whose source Sourcify has verified
    Etherscan    \* the code whose ABI Etherscan has

Descriptor == 1..N

ASSUME WatchAssumption ==
    /\ N \in Nat
    /\ Self \in [Descriptor -> Code] /\ Proxies \subseteq Descriptor
    /\ Impls \subseteq Code
    /\ AbiOf \in [Code -> Abi]
    /\ Signable \in [Abi -> SUBSET Sig]
    /\ Covered \in [Descriptor -> SUBSET Sig]
    /\ Sourcify \subseteq Code /\ Etherscan \subseteq Code
    /\ None \notin Code

VARIABLES
    impl,       \* impl[d]: the implementation behind a proxy, else None
    file,       \* watch_state.json: whether it is JSON, and its baselines
    run,        \* the job's local state
    recorded    \* history: the baseline each descriptor should have

watchVars == <<impl, file, run, recorded>>

Baseline == [impl : Code \cup {None}, abi : Abi]
Baselines == [Descriptor -> Baseline \cup {None}]
NoBaselines == [d \in Descriptor |-> None]
NoFile == [kind |-> "absent", base |-> NoBaselines]
Torn == [kind |-> "torn", base |-> NoBaselines]
Json(b) == [kind |-> "json", base |-> b]
Statuses == {"none", "UNRESOLVABLE", "BASELINE", "OK", "DRIFT"}
Run == [pc : {"idle", "loop", "write", "exited"}, key : BOOLEAN,
        init : BOOLEAN, named : SUBSET Descriptor, todo : SUBSET Descriptor,
        state : Baselines,
        status : [Descriptor -> Statuses],
        looked : [Descriptor -> Code \cup {None}],
        live : Baselines, failed : BOOLEAN, exit : {0, 1}]
-----------------------------------------------------------------------------
(* resolve_proxy.implementation(): asked only with a key; neither lookup   *)
(* raises when the explorer declines to answer, it just names nothing.     *)
Lookups(d, key) == IF key THEN {impl[d], None} ELSE {None}

(* live_state() once the lookup returned i: the ABI of the implementation  *)
(* or of the address itself, from Sourcify or, with a key, from Etherscan. *)
Target(d, i) == IF i = None THEN Self[d] ELSE i
HasAbi(c, key) == c \in Sourcify \/ (key /\ c \in Etherscan)
LiveState(d, i, key) ==
    IF HasAbi(Target(d, i), key)
    THEN [impl |-> i, abi |-> AbiOf[Target(d, i)]] ELSE None

(* diff(): the kinds of event.                                             *)
Events(base, live, covered) ==
    LET found ==
          {k \in {"IMPL_CHANGED", "NEW_UNCOVERED", "STALE_ENTRY"} :
             CASE k = "IMPL_CHANGED"  -> /\ base.impl # None /\ live.impl # None
                                         /\ base.impl # live.impl
               [] k = "NEW_UNCOVERED" -> Signable[live.abi] \ covered # {}
               [] k = "STALE_ENTRY"   -> covered \ Signable[live.abi] # {}}
    IN  IF found = {} /\ base.abi # live.abi THEN {"ABI_TOUCHED"} ELSE found

(* FAILING: the events of severity CRITICAL and HIGH.                      *)
Failing(events) == events \cap {"IMPL_CHANGED", "NEW_UNCOVERED"} # {}
-----------------------------------------------------------------------------
(* main(): the run is over the descriptors named on the command line, in   *)
(* any order, or over all of them.  The state file is read once; one that  *)
(* is not JSON raises.                                                     *)
StartAnyway(key, init, named) ==   \* mutant: a torn file counts as absent
    /\ run.pc \in {"idle", "exited"}
    /\ run' = [pc |-> "loop", key |-> key, init |-> init,
               named |-> named, todo |-> named,
               state |-> file.base,
               status |-> [d \in Descriptor |-> "none"],
               looked |-> NoBaselines, live |-> NoBaselines,
               failed |-> FALSE, exit |-> 0]
    /\ UNCHANGED <<impl, file, recorded>>
Start(key, init, named) ==
    /\ run.pc \in {"idle", "exited"} /\ file.kind # "torn"
    /\ run' = [pc |-> "loop", key |-> key, init |-> init,
               named |-> named, todo |-> named,
               state |-> file.base,
               status |-> [d \in Descriptor |-> "none"],
               looked |-> NoBaselines, live |-> NoBaselines,
               failed |-> FALSE, exit |-> 0]
    /\ UNCHANGED <<impl, file, recorded>>

(* One turn of the loop: no ABI to be had, a baseline to record, or a      *)
(* comparison with the one recorded.                                       *)
Note(d, i, live, status) ==
    [run EXCEPT !.todo = @ \ {d}, !.looked[d] = i, !.live[d] = live,
                !.status[d] = status]

Unresolvable(d, i, live) ==
    /\ live = None
    /\ run' = Note(d, i, live, "UNRESOLVABLE")

Record(d, i, live) ==
    /\ live # None
    /\ run.init \/ run.state[d] = None
    /\ run' = [Note(d, i, live, "BASELINE") EXCEPT !.state[d] = live]

CompareLast(d, i, live) ==           \* mutant: the last descriptor decides
    /\ live # None /\ ~run.init /\ run.state[d] # None
    /\ LET events == Events(run.state[d], live, Covered[d]) IN
       run' = [Note(d, i, live, IF events = {} THEN "OK" ELSE "DRIFT")
                 EXCEPT !.failed = Failing(events)]
CompareRebased(d, i, live) ==       \* mutant: the drift becomes the baseline
    /\ live # None /\ ~run.init /\ run.state[d] # None
    /\ LET events == Events(run.state[d], live, Covered[d]) IN
       run' = [Note(d, i, live, IF events = {} THEN "OK" ELSE "DRIFT")
                 EXCEPT !.failed = run.failed \/ Failing(events),
                        !.state[d] = live]
Compare(d, i, live) ==
    /\ live # None /\ ~run.init /\ run.state[d] # None
    /\ LET events == Events(run.state[d], live, Covered[d]) IN
       run' = [Note(d, i, live, IF events = {} THEN "OK" ELSE "DRIFT")
                 EXCEPT !.failed = run.failed \/ Failing(events)]

Examine(d, i) ==
    LET live == LiveState(d, i, run.key) IN
    /\ run.pc = "loop" /\ d \in run.todo
    /\ Unresolvable(d, i, live) \/ Record(d, i, live) \/ Compare(d, i, live)
    /\ UNCHANGED <<impl, file, recorded>>

(* STATE.write_text(): the file is truncated, then filled.                 *)
Truncate ==
    /\ run.pc = "loop" /\ run.todo = {}
    /\ run' = [run EXCEPT !.pc = "write"]
    /\ file' = Torn
    /\ UNCHANGED <<impl, recorded>>

(* The history takes a new baseline only where there was none or --init    *)
(* asked for it.  Then the report is printed and the exit code is failed.  *)
Due == {d \in Descriptor : run.status[d] = "BASELINE" /\ (run.init \/ recorded[d] = None)}
Fill ==
    /\ run.pc = "write"
    /\ file' = Json(run.state)
    /\ recorded' = [d \in Descriptor |-> IF d \in Due THEN run.live[d] ELSE recorded[d]]
    /\ run' = [run EXCEPT !.pc = "exited", !.exit = IF run.failed THEN 1 ELSE 0]
    /\ UNCHANGED impl

(* A lookup raises, or the run is killed: nothing is reported and the file *)
(* stays as it is at that point.                                           *)
Stop ==
    /\ run.pc \in {"loop", "write"}
    /\ run' = [run EXCEPT !.pc = "idle", !.exit = 1]
    /\ UNCHANGED <<impl, file, recorded>>

(* External: a proxy is upgraded; an operator removes a torn file.         *)
Upgrade(d, c) ==
    /\ d \in Proxies /\ impl[d] # c
    /\ impl' = [impl EXCEPT ![d] = c]
    /\ UNCHANGED <<file, run, recorded>>

Remove ==
    /\ file.kind = "torn" /\ run.pc # "write"
    /\ file' = NoFile
    /\ recorded' = NoBaselines
    /\ UNCHANGED <<impl, run>>

WatchInit ==
    /\ impl \in [Descriptor -> Impls \cup {None}]
    /\ \A d \in Descriptor : impl[d] # None <=> d \in Proxies
    /\ file = NoFile
    /\ run = [pc |-> "idle", key |-> FALSE, init |-> FALSE,
              named |-> {}, todo |-> {},
              state |-> NoBaselines,
              status |-> [d \in Descriptor |-> "none"],
              looked |-> NoBaselines, live |-> NoBaselines,
              failed |-> FALSE, exit |-> 0]
    /\ recorded = NoBaselines

WatchNext ==
    \/ \E key \in BOOLEAN, init \in BOOLEAN, named \in SUBSET Descriptor \ {{}} :
          Start(key, init, named)
    \/ \E d \in Descriptor : \E i \in Lookups(d, run.key) : Examine(d, i)
    \/ Truncate
    \/ Fill
    \/ Stop
    \/ \E d \in Descriptor, c \in Impls : Upgrade(d, c)
    \/ Remove

WatchSpec == WatchInit /\ [][WatchNext]_watchVars
-----------------------------------------------------------------------------
(* Types of the file, the job and the history.                             *)
WatchTypeOK ==
    /\ impl \in [Descriptor -> Impls \cup {None}]
    /\ file \in [kind : {"absent", "torn", "json"}, base : Baselines]
    /\ run \in Run
    /\ recorded \in Baselines

(* What the file holds is what the first run, or the last run with --init, *)
(* saw: no drift, no failed or killed run and no half-written file ever    *)
(* makes a later run take a changed contract for the baseline.             *)
BaselineFaithful ==
    file.kind = "json" => file.base = recorded

(* Exit code 0 and the report it comes with can be trusted as far as they  *)
(* go: every descriptor of the run was examined, whichever came last.  One *)
(* that was compared shows no function its screens do not cover and no     *)
(* implementation other than the one on record, however many runs ago that *)
(* was taken; one that is reported OK has the very ABI on record, and its  *)
(* screens are of exactly its functions.  One that is reported BASELINE is *)
(* now on record as it was seen, and was not compared with anything: main  *)
(* leaves the loop before diff(), so a first run and one with --init exit  *)
(* with 0 whatever their screens cover.                                    *)
NoFailingDrift(d) ==
    /\ Signable[run.live[d].abi] \subseteq Covered[d]
    /\ (recorded[d].impl # None /\ run.live[d].impl # None) =>
          run.live[d].impl = recorded[d].impl
NoDrift(d) ==
    run.live[d].abi = recorded[d].abi /\ Signable[run.live[d].abi] = Covered[d]
QuietIsAccounted ==
    (run.pc = "exited" /\ run.exit = 0) =>
        \A d \in run.named :
            /\ run.status[d] # "none"
            /\ run.status[d] \in {"OK", "DRIFT"} => NoFailingDrift(d)
            /\ run.status[d] = "OK" => NoDrift(d)
            /\ run.status[d] = "BASELINE" => recorded[d] = run.live[d]

(* "For each descriptor this compares the live implementation ... against  *)
(* a recorded baseline and reports drift ... CRITICAL/HIGH drift exits     *)
(* non-zero" (watch.py): a run that was told of another implementation     *)
(* than the recorded one does not exit with 0.                             *)
UpgradeAlerts ==
    (run.pc = "exited" /\ run.exit = 0 /\ ~run.init) =>
        \A d \in Descriptor :
            (run.looked[d] # None /\ recorded[d] # None /\ recorded[d].impl # None)
                => run.looked[d] = recorded[d].impl
=============================================================================
