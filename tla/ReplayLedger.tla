---------------------------- MODULE ReplayLedger ----------------------------
(***************************************************************************)
(* What an idempotency store promises its callers, with none of the        *)
(* bookkeeping: no recency order, no byte counters, no lazy sweeps.  An    *)
(* entry is gone the moment its time is up, whoever looks.                 *)
(*                                                                         *)
(*   - one caller at a time owns a key, for ReservationTTL at most;        *)
(*   - only the owner publishes or releases, and publishing never fails;   *)
(*   - a published response is replayed to the same fingerprint for TTL    *)
(*     unless the store may evict, and to no other fingerprint;            *)
(*   - with evict, room is refused only when MaxEntries reservations are   *)
(*     live; without it, only when something is live.                      *)
(***************************************************************************)
EXTENDS Ledger, FiniteSets, Sequences

CONSTANTS Keys, Fingerprints, Sizes, TTL, ReservationTTL, MaxEntries,
          MaxResponseBytes, MaxTokens

VARIABLES evict, ledger, now, tickets, reply

vars == <<evict, ledger, now, tickets, reply>>

Answer(op, k, fp, outcome, resp) ==
    reply' = [op |-> op, key |-> k, fp |-> fp, outcome |-> outcome,
              resp |-> resp]

(* Without eviction every reservation is promised a maximal response.      *)
Hold == IF evict THEN 0 ELSE MaxResponseBytes

CompletedIn(L) == {k \in Keys : L[k].state = "complete"}

(* The ledgers that may be left when completed entries make way.           *)
Evictions(L) ==
    IF evict
    THEN {[k \in Keys |-> IF k \in K THEN Absent ELSE L[k]] :
             K \in SUBSET CompletedIn(L)}
    ELSE {L}

MayRefuse ==
    /\ Present(ledger) # {}
    /\ evict => /\ CompletedIn(ledger) = {}
                /\ Cardinality(Present(ledger)) = MaxEntries

Reserve(k, fp) ==
    LET what == Lookup(ledger[k], fp) IN
    \/ /\ what \in {"conflict", "in_progress"}
       /\ Answer("reserve", k, fp, what, None)
       /\ UNCHANGED <<ledger, now, tickets>>
    \/ /\ what = "replay"
       /\ Answer("reserve", k, fp, what, ledger[k].resp)
       /\ UNCHANGED <<ledger, now, tickets>>
    \/ /\ what = "fresh" /\ MayRefuse
       /\ Answer("reserve", k, fp, "capacity", None)
       /\ UNCHANGED <<ledger, now, tickets>>
    \/ /\ what = "fresh"
       /\ Len(tickets) < MaxTokens
       /\ \E L \in Evictions(ledger) :
            ledger' = [L EXCEPT ![k] =
                Reserved(fp, Len(tickets) + 1, now + ReservationTTL, Hold)]
       /\ tickets' = Append(tickets, [key |-> k, fp |-> fp])
       /\ Answer("reserve", k, fp, "reserved", None)
       /\ UNCHANGED now

Commit(i, size) ==
    LET k == tickets[i].key
        owned == Owns(ledger[k], tickets[i].fp, i)
    IN
    \/ /\ size > MaxResponseBytes
       /\ Answer("commit", None, None, "too_large", None)
       /\ UNCHANGED <<ledger, now, tickets>>
    \/ /\ size <= MaxResponseBytes /\ ~owned
       /\ Answer("commit", None, None, "invalid", None)
       /\ UNCHANGED <<ledger, now, tickets>>
    \/ /\ size <= MaxResponseBytes /\ owned
       /\ \E L \in Evictions(ledger) :
            ledger' = [L EXCEPT ![k] =
                Completed(L[k], [by |-> i, size |-> size], now + TTL)]
       /\ Answer("commit", None, None, "committed", None)
       /\ UNCHANGED <<now, tickets>>

Abort(i) ==
    LET k == tickets[i].key
        owned == Owns(ledger[k], tickets[i].fp, i)
    IN  /\ ledger' = [ledger EXCEPT ![k] = IF owned THEN Absent ELSE @]
        /\ Answer("abort", None, None,
                  IF owned THEN "aborted" ELSE "not_owner", None)
        /\ UNCHANGED <<now, tickets>>

NoReply == [op |-> "init", key |-> None, fp |-> None,
            outcome |-> "none", resp |-> None]

Tick ==
    /\ now' = now + 1
    /\ ledger' = Purge(ledger, now')
    /\ reply' = NoReply
    /\ UNCHANGED tickets

Init ==
    /\ evict \in BOOLEAN
    /\ ledger = [k \in Keys |-> Absent]
    /\ now = 0
    /\ tickets = <<>>
    /\ reply = NoReply

Next ==
    /\ \/ \E k \in Keys, fp \in Fingerprints : Reserve(k, fp)
       \/ \E i \in 1..Len(tickets), size \in Sizes : Commit(i, size)
       \/ \E i \in 1..Len(tickets) : Abort(i)
       \/ Tick
    /\ UNCHANGED evict

Spec == Init /\ [][Next]_vars
=============================================================================
