----------------------------- MODULE SigningKeys -----------------------------
(***************************************************************************)
(* domain/signing_keys_service.py: the signing keys of ONE account, as     *)
(* concurrent requests: POST /v1/keys (capped), the key recorded by the    *)
(* first signed send (not capped), DELETE /v1/keys and account deletion.   *)
(*                                                                         *)
(* The INSERTs run in a SAVEPOINT that no BEGIN precedes: a successful one *)
(* is committed at its RELEASE, a failed one keeps the writer lock until   *)
(* the request commits.                                                    *)
(***************************************************************************)
EXTENDS Naturals, FiniteSets

CONSTANTS Keys, Requests, MaxKeys

SigningKeyConstants == IsFiniteSet(Keys) /\ MaxKeys \in Nat \ {0}

VARIABLES
    account,     \* "there" or "gone"
    keys,        \* signing_keys rows of the account
    step, key    \* a request: where it is, about which key

vars == <<account, keys, step, key>>

Goto(r, s) == step' = [step EXCEPT ![r] = s]

-----------------------------------------------------------------------------
(* register_explicit_key, and the commit of the route *)

\* get_key: a known key is touched, a new one inserted.
RegisterLookup(r, k) ==
    /\ step[r] = "new" /\ account = "there"
    /\ key' = [key EXCEPT ![r] = k]
    /\ Goto(r, IF k \in keys THEN "touch" ELSE "insert")
    /\ UNCHANGED <<account, keys>>

\* UPDATE of last_seen_at by primary key; no row left is a StaleDataError.
Touch(r) ==
    /\ step[r] = "touch"
    /\ Goto(r, IF key[r] \in keys THEN "registered" ELSE "error")
    /\ UNCHANGED <<account, keys, key>>

\* Mutant: the count was read before the INSERT.
InsertUncapped(r) ==
    /\ step[r] = "insert"
    /\ keys' = keys \cup {key[r]}
    /\ Goto(r, IF key[r] \in keys THEN "registered" ELSE "readBack")
    /\ UNCHANGED <<account, key>>

\* _capped_insert: INSERT ... SELECT ... WHERE count < MaxKeys.  At the cap no row is
\* produced, a duplicate included.  Below it a duplicate is an IntegrityError; the row
\* it met cannot go before the commit, and is touched.
CappedInsert(r) ==
    /\ step[r] = "insert"
    /\ \/ /\ Cardinality(keys) >= MaxKeys
          /\ Goto(r, "recheck") /\ UNCHANGED keys
       \/ /\ Cardinality(keys) < MaxKeys /\ key[r] \in keys
          /\ Goto(r, "registered") /\ UNCHANGED keys
       \/ /\ Cardinality(keys) < MaxKeys /\ key[r] \notin keys
          /\ keys' = keys \cup {key[r]}
          /\ Goto(r, "readBack")
    /\ UNCHANGED <<account, key>>

\* Mutant: zero rows is taken for a full set at once.
RecheckNothing(r) ==
    /\ step[r] = "recheck"
    /\ Goto(r, "full")
    /\ UNCHANGED <<account, keys, key>>

\* Zero rows: perhaps a concurrent request registered this very key.
Recheck(r) ==
    /\ step[r] = "recheck"
    /\ Goto(r, IF key[r] \in keys THEN "touch" ELSE "full")
    /\ UNCHANGED <<account, keys, key>>

\* The new row is read back for the answer; revoked already, there is none.
ReadBack(r) ==
    /\ step[r] = "readBack"
    /\ Goto(r, IF key[r] \in keys THEN "registered" ELSE "error")
    /\ UNCHANGED <<account, keys, key>>

-----------------------------------------------------------------------------
\* record_signing_key, on a signed send: insert, or touch the row it collided with.
\* Its second attempt is for a store where that row can vanish in between.
RecordSigningKey(r, k) ==
    /\ step[r] = "new" /\ account = "there"
    /\ key' = [key EXCEPT ![r] = k]
    /\ keys' = keys \cup {k}
    /\ Goto(r, "recorded")
    /\ UNCHANGED account

RevokeKey(r, k) ==
    /\ step[r] = "new" /\ account = "there"
    /\ key' = [key EXCEPT ![r] = k]
    /\ keys' = keys \ {k}
    /\ Goto(r, "revoked")
    /\ UNCHANGED account

\* purge_user_keys: of the account's deletion, and of a finished recovery.
Purge == keys' = {} /\ UNCHANGED <<step, key>>

PurgeUserKeys ==
    /\ account = "there" /\ account' \in {"there", "gone"}
    /\ Purge

-----------------------------------------------------------------------------
Init ==
    /\ account = "there" /\ keys = {}
    /\ step = [r \in Requests |-> "new"]
    /\ key \in [Requests -> {CHOOSE k \in Keys : TRUE}]

RegisterStep(r) ==
    \/ \E k \in Keys : RegisterLookup(r, k)
    \/ Touch(r) \/ CappedInsert(r) \/ Recheck(r) \/ ReadBack(r)

Requesting == \E r \in Requests :
    \/ RegisterStep(r)
    \/ \E k \in Keys : RecordSigningKey(r, k) \/ RevokeKey(r, k)

Next == Requesting \/ PurgeUserKeys

Spec == Init /\ [][Next]_vars

-----------------------------------------------------------------------------
(* Properties *)

TypeOK ==
    /\ account \in {"there", "gone"} /\ keys \subseteq Keys
    /\ step \in [Requests -> {"new", "touch", "insert", "recheck", "readBack", "registered",
                              "recorded", "revoked", "full", "error"}]
    /\ key \in [Requests -> Keys]

\* What a registration's step may do to the cap, and answer.
ExactStep ==
    \A r \in Requests :
        /\ step[r] = "insert" /\ step'[r] = "readBack" => Cardinality(keys') <= MaxKeys
        /\ step'[r] = "registered" /\ step[r] # "registered" => key[r] \in keys'
        /\ step'[r] = "full" /\ step[r] # "full" => key[r] \notin keys'

\* _capped_insert "closes the count-then-insert race", and the re-check keeps a key that
\* is registered from being refused: a registration never takes the account over the
\* cap, answers 201 only for a key that is stored and 429 only for one that is not.
RegistrationIsExact == [][ExactStep]_vars
=============================================================================
