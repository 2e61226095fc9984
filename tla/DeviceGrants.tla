---------------------------- MODULE DeviceGrants ----------------------------
(***************************************************************************)
(* Device grants: a client is granted tokens in a user's name by a consent *)
(* in the browser (server/routes/device_auth.py) and keeps itself going    *)
(* with refresh tokens that rotate (server/device_grant_store.py).         *)
(*                                                                         *)
(* Every store method is one transaction and one step.  A route is a       *)
(* sequence of store calls; the replicas of the server share the database, *)
(* so the calls of two requests interleave.  Clients may send any request  *)
(* again, late, or twice at once.  Digests of tokens are the tokens.       *)
(***************************************************************************)
EXTENDS Naturals

CONSTANTS
    Grants,         \* the grants that may be requested
    Users,          \* the users who may approve one
    Calls,          \* requests being served at the same time
    NoUser,         \* not a user
    NoGrant,        \* not a grant
    MaxTokens       \* bound: refresh tokens of a grant

ASSUME NamesAssumption == NoUser \notin Users /\ NoGrant \notin Grants
ASSUME TokensAssumption == MaxTokens \in Nat \ {0}

VARIABLES
    status,     \* status[g]: the row's status, "none" before, "purged" after
    user,       \* user[g]: the row's user_id
    cur,        \* cur[g]: refresh_token_hash, 0 when null
    prev,       \* prev[g]: prev_refresh_token_hash, 0 when null
    expired,    \* expired[g]: expires_at has passed
    aged,       \* aged[g]: _GRANT_MAX_LIFETIME_SECONDS since approved_at
    issued,     \* issued[g]: the tokens handed out, numbered as they are
    from,       \* from[g]: what each of them was handed out for (a history
                \* variable): the device code (0) or an older token
    call        \* call[c]: the request being served

rows == <<status, user, cur, prev>>
clock == <<expired, aged>>
tokens == <<issued, from>>
vars == <<rows, clock, tokens, call>>

Tokens == 1..MaxTokens
Steps == {"approve", "deny", "redeem", "present", "rotate", "replay", "kill",
          "revoke"}
Idle == [step |-> "idle", grant |-> NoGrant, token |-> 0, user |-> NoUser]

(* One type invariant.                                                     *)
TypeOK ==
    /\ status \in [Grants -> {"none", "pending", "approved", "denied",
                              "redeemed", "revoked", "purged"}]
    /\ user \in [Grants -> Users \cup {NoUser}]
    /\ cur \in [Grants -> 0..MaxTokens]
    /\ prev \in [Grants -> 0..MaxTokens]
    /\ expired \in [Grants -> BOOLEAN]
    /\ aged \in [Grants -> BOOLEAN]
    /\ issued \in [Grants -> 0..MaxTokens]
    /\ from \in [Grants -> [Tokens -> 0..MaxTokens]]
    /\ call \in [Calls -> [step : Steps, grant : Grants, token : 0..MaxTokens,
                           user : Users \cup {NoUser}] \cup {Idle}]

Init ==
    /\ status = [g \in Grants |-> "none"]
    /\ user = [g \in Grants |-> NoUser]
    /\ cur = [g \in Grants |-> 0]
    /\ prev = [g \in Grants |-> 0]
    /\ expired = [g \in Grants |-> FALSE]
    /\ aged = [g \in Grants |-> FALSE]
    /\ issued = [g \in Grants |-> 0]
    /\ from = [g \in Grants |-> [t \in Tokens |-> 0]]
    /\ call = [c \in Calls |-> Idle]

(* The tokens of g handed out so far, and the next one.                    *)
Issued(g) == 1..issued[g]
NextToken(g) == issued[g] + 1

(* A request goes on to its next store call, or is answered.               *)
Begin(c, s, g, t, u) ==
    /\ call[c] = Idle
    /\ call' = [call EXCEPT ![c] = [step |-> s, grant |-> g, token |-> t, user |-> u]]
Proceed(c, s) == call' = [call EXCEPT ![c].step = s]
Answer(c) == call' = [call EXCEPT ![c] = Idle]

-----------------------------------------------------------------------------
(* POST /oauth/device/authorize: a new pending grant.                      *)
CreateGrant(g) ==
    /\ status[g] = "none"
    /\ status' = [status EXCEPT ![g] = "pending"]
    /\ UNCHANGED <<user, cur, prev, clock, tokens, call>>

(* It purges the rows that can yield nothing any more.                     *)
Purgeable(g) ==
    \/ status[g] \in {"pending", "denied"} /\ expired[g]
    \/ status[g] \in {"redeemed", "revoked"} /\ aged[g]

PurgeExpired ==
    /\ \E g \in Grants : Purgeable(g)
    /\ status' = [g \in Grants |-> IF Purgeable(g) THEN "purged" ELSE status[g]]
    /\ cur' = [g \in Grants |-> IF Purgeable(g) THEN 0 ELSE cur[g]]
    /\ prev' = [g \in Grants |-> IF Purgeable(g) THEN 0 ELSE prev[g]]
    /\ UNCHANGED <<user, clock, tokens, call>>

(* POST /oauth/device/approve: the grant is looked up by its code, and     *)
(* then bound to the user by an UPDATE that names the state it expects.    *)
ApproveLooks(c, g, u) ==
    /\ status[g] = "pending" /\ ~expired[g]
    /\ Begin(c, "approve", g, 0, u)
    /\ UNCHANGED <<rows, clock, tokens>>

(* Mutant: binds the user by primary key alone.                            *)
mutant_Approve(c) ==
    LET g == call[c].grant IN
    /\ call[c].step = "approve"
    /\ IF status[g] \in {"pending", "approved"}
       THEN /\ status' = [status EXCEPT ![g] = "approved"]
            /\ user' = [user EXCEPT ![g] = call[c].user]
       ELSE UNCHANGED <<status, user>>
    /\ Answer(c)
    /\ UNCHANGED <<cur, prev, clock, tokens>>

(* The moment the route read its clock is the one of the look-up, so the   *)
(* UPDATE's comparison with expires_at holds whenever the look-up's did.   *)
Approve(c) ==
    LET g == call[c].grant IN
    /\ call[c].step = "approve"
    /\ IF status[g] = "pending"
       THEN /\ status' = [status EXCEPT ![g] = "approved"]
            /\ user' = [user EXCEPT ![g] = call[c].user]
       ELSE UNCHANGED <<status, user>>
    /\ Answer(c)
    /\ UNCHANGED <<cur, prev, clock, tokens>>

(* POST /oauth/device/deny.                                                *)
DenyLooks(c, g) ==
    /\ status[g] \notin {"none", "purged"}
    /\ Begin(c, "deny", g, 0, NoUser)
    /\ UNCHANGED <<rows, clock, tokens>>

Deny(c) ==
    LET g == call[c].grant IN
    /\ call[c].step = "deny"
    /\ status' = [status EXCEPT ![g] = IF @ = "pending" THEN "denied" ELSE @]
    /\ Answer(c)
    /\ UNCHANGED <<user, cur, prev, clock, tokens>>

-----------------------------------------------------------------------------
(* POST /oauth/token with a device code: poll_for_token.  Every outcome    *)
(* but "approved" is an error answer and changes nothing a property sees   *)
(* (last_polled_at only throttles the client).                             *)
Poll(c, g) ==
    /\ status[g] = "approved" /\ ~expired[g]
    /\ Begin(c, "redeem", g, 0, NoUser)
    /\ UNCHANGED <<rows, clock, tokens>>

HandOut(g, for) ==
    /\ issued' = [issued EXCEPT ![g] = @ + 1]
    /\ from' = [from EXCEPT ![g][NextToken(g)] = for]

(* redeem_approved: the code is exchanged once, however many polls saw the *)
(* approval.  Its clock is the poll's.                                     *)
RedeemApproved(c) ==
    LET g == call[c].grant IN
    /\ call[c].step = "redeem"
    /\ IF status[g] = "approved"
       THEN /\ status' = [status EXCEPT ![g] = "redeemed"]
            /\ cur' = [cur EXCEPT ![g] = NextToken(g)]
            /\ HandOut(g, 0)
       ELSE UNCHANGED <<status, cur, tokens>>
    /\ Answer(c)
    /\ UNCHANGED <<user, prev, clock>>

-----------------------------------------------------------------------------
(* POST /oauth/token with a refresh token.                                 *)

(* The request arrives: any token handed out, the current one or an older. *)
Refresh(c, g, t) ==
    /\ t \in Issued(g)
    /\ Begin(c, "present", g, t, NoUser)
    /\ UNCHANGED <<rows, clock, tokens>>

(* get_by_refresh_hash finds a live grant; past its lifetime the request   *)
(* is refused, and without a hit the previous token is looked at.          *)
PresentToken(c) ==
    LET g == call[c].grant IN
    /\ call[c].step = "present"
    /\ IF status[g] = "redeemed" /\ cur[g] = call[c].token
       THEN IF aged[g] THEN Answer(c) ELSE Proceed(c, "rotate")
       ELSE Proceed(c, "replay")
    /\ UNCHANGED <<rows, clock, tokens>>

(* Mutant: rotation does not name the token it expects.                    *)
mutant_RotateRefreshToken(c) ==
    LET g == call[c].grant IN
    /\ call[c].step = "rotate"
    /\ IF status[g] = "redeemed" /\ ~aged[g]
       THEN /\ NextToken(g) <= MaxTokens
            /\ cur' = [cur EXCEPT ![g] = NextToken(g)]
            /\ prev' = [prev EXCEPT ![g] = call[c].token]
            /\ HandOut(g, call[c].token)
       ELSE UNCHANGED <<cur, prev, tokens>>
    /\ Answer(c)
    /\ UNCHANGED <<status, user, clock>>

(* Mutant: rotation does not look at the status.                           *)
mutant_RotateRefreshToken2(c) ==
    LET g == call[c].grant IN
    /\ call[c].step = "rotate"
    /\ NextToken(g) <= MaxTokens
    /\ cur' = [cur EXCEPT ![g] = NextToken(g)]
    /\ prev' = [prev EXCEPT ![g] = call[c].token]
    /\ HandOut(g, call[c].token)
    /\ Answer(c)
    /\ UNCHANGED <<status, user, clock>>

(* rotate_refresh_token: one UPDATE; a loser is refused and nothing is     *)
(* revoked.                                                                *)
RotateRefreshToken(c) ==
    LET g == call[c].grant IN
    /\ call[c].step = "rotate"
    /\ IF status[g] = "redeemed" /\ cur[g] = call[c].token /\ ~aged[g]
       THEN /\ NextToken(g) <= MaxTokens
            /\ cur' = [cur EXCEPT ![g] = NextToken(g)]
            /\ prev' = [prev EXCEPT ![g] = call[c].token]
            /\ HandOut(g, call[c].token)
       ELSE UNCHANGED <<cur, prev, tokens>>
    /\ Answer(c)
    /\ UNCHANGED <<status, user, clock>>

(* Mutant: a replayed token is only refused.                               *)
mutant_DetectReuse(c) ==
    /\ call[c].step = "replay"
    /\ Answer(c)
    /\ UNCHANGED <<rows, clock, tokens>>

(* get_by_prev_refresh_hash: the token that was current before was         *)
(* presented again.                                                        *)
DetectReuse(c) ==
    LET g == call[c].grant IN
    /\ call[c].step = "replay"
    /\ IF status[g] = "redeemed" /\ prev[g] = call[c].token THEN Proceed(c, "kill")
                                                            ELSE Answer(c)
    /\ UNCHANGED <<rows, clock, tokens>>

-----------------------------------------------------------------------------
(* POST /oauth/revoke: the grant is found by the current refresh token, or *)
(* by the access token, which names the grant whatever its state.          *)
RevokeLooks(c, g) ==
    /\ issued[g] > 0 /\ status[g] # "purged"
    /\ Begin(c, "revoke", g, 0, NoUser)
    /\ UNCHANGED <<rows, clock, tokens>>

(* revoke: whatever the row's state, both tokens are cleared.              *)
RevokeRow(g) ==
    IF status[g] \in {"none", "purged", "revoked"}
    THEN UNCHANGED <<status, cur, prev>>
    ELSE /\ status' = [status EXCEPT ![g] = "revoked"]
         /\ cur' = [cur EXCEPT ![g] = 0]
         /\ prev' = [prev EXCEPT ![g] = 0]

Revoke(c) ==
    /\ call[c].step \in {"kill", "revoke"}
    /\ RevokeRow(call[c].grant)
    /\ Answer(c)
    /\ UNCHANGED <<user, clock, tokens>>

-----------------------------------------------------------------------------
(* Time passes.                                                            *)
Expire(g) ==
    /\ status[g] # "none" /\ ~expired[g]
    /\ expired' = [expired EXCEPT ![g] = TRUE]
    /\ UNCHANGED <<rows, aged, tokens, call>>

Age(g) ==
    /\ user[g] # NoUser /\ ~aged[g]
    /\ aged' = [aged EXCEPT ![g] = TRUE]
    /\ UNCHANGED <<rows, expired, tokens, call>>

Serve(c) == \/ Approve(c) \/ Deny(c) \/ RedeemApproved(c) \/ PresentToken(c)
            \/ RotateRefreshToken(c) \/ DetectReuse(c) \/ Revoke(c)

Next ==
    \/ \E g \in Grants : CreateGrant(g)
    \/ PurgeExpired
    \/ \E c \in Calls, g \in Grants, u \in Users : ApproveLooks(c, g, u)
    \/ \E c \in Calls, g \in Grants : DenyLooks(c, g)
    \/ \E c \in Calls, g \in Grants : Poll(c, g)
    \/ \E c \in Calls, g \in Grants, t \in Tokens : Refresh(c, g, t)
    \/ \E c \in Calls, g \in Grants : RevokeLooks(c, g)
    \/ \E c \in Calls : Serve(c)
    \/ \E g \in Grants : Expire(g)
    \/ \E g \in Grants : Age(g)

Spec == Init /\ [][Next]_vars

(* A request that is being served is served to its end.                    *)
FairSpec == Spec /\ \A c \in Calls : WF_vars(Serve(c))

-----------------------------------------------------------------------------
(* Properties.                                                             *)

(* A grant that was not redeemed has no token and no superseded one, and   *)
(* one that nobody has approved acts for nobody.                           *)
NothingBeforeConsent ==
    \A g \in Grants :
        /\ status[g] \in {"none", "pending", "approved", "denied"} =>
               issued[g] = 0 /\ prev[g] = 0
        /\ status[g] \in {"none", "pending"} => user[g] = NoUser

(* Nothing is exchanged twice: the device code yields the first token and  *)
(* every token its one successor, however many requests present it at once *)
(* or again, so at any time one chain of tokens speaks for the grant.      *)
OneChain == \A g \in Grants : \A n \in Issued(g) : from[g][n] = n - 1

(* Both digests of a row belong to that chain: the current token is the    *)
(* last one handed out and the previous one what it was handed out for, so *)
(* the reuse check recognises exactly the token that was superseded last.  *)
ChainIsRecorded ==
    \A g \in Grants :
        status[g] = "redeemed" =>
            /\ issued[g] > 0
            /\ cur[g] = issued[g]
            /\ prev[g] = from[g][cur[g]]

(* The three, which are inductive together with the types.                 *)
GrantInv == TypeOK /\ NothingBeforeConsent /\ OneChain /\ ChainIsRecorded

(* The end of a grant is final: once it is denied, revoked or purged       *)
(* no request that was already past its look-up, and no later one, hands   *)
(* out another token or brings the grant back.                             *)
EndIsFinal ==
    [][\A g \in Grants :
          status[g] \in {"denied", "revoked", "purged"} =>
              /\ status'[g] \in {status[g], "revoked", "purged"}
              /\ issued'[g] = issued[g]]_vars

(* The user whose consent came first is the one the tokens act for: a      *)
(* second approval in flight does not rebind the grant.                    *)
FirstConsentCounts ==
    [][\A g \in Grants : user[g] # NoUser => user'[g] = user[g]]_vars

(* A replay of the token superseded last ends the grant, unless a rotation *)
(* by the holder of the current token overtakes the check.                 *)
ReplayEndsGrant ==
    \A c \in Calls, g \in Grants, t \in Tokens :
        (/\ call[c].step = "replay" /\ call[c].grant = g /\ call[c].token = t
         /\ status[g] = "redeemed" /\ prev[g] = t)
        ~> (status[g] # "redeemed" \/ prev[g] # t)
=============================================================================
