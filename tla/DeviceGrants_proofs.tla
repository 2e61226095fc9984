------------------------ MODULE DeviceGrants_proofs ------------------------
(***************************************************************************)
(* Proofs about DeviceGrants, for any number of grants, users, concurrent  *)
(* requests and tokens.  GrantInv is inductive: a rotation names the token *)
(* it expects and the status, so it extends the chain at its end or does   *)
(* nothing, whatever happened since the request looked the grant up.       *)
(***************************************************************************)
EXTENDS DeviceGrants, TLAPS

CallRecord == [step : Steps, grant : Grants, token : 0..MaxTokens,
               user : Users \cup {NoUser}]

(* A request between two store calls names a grant and a token of it.      *)
LEMMA Served ==
    ASSUME TypeOK, NEW c \in Calls, call[c].step # "idle"
    PROVE  call[c] \in CallRecord
<1>1. call[c] \in CallRecord \cup {Idle}
  BY DEF TypeOK, CallRecord
<1>2. call[c] # Idle
  BY DEF Idle
<1> QED BY <1>1, <1>2

(* The first call of a request, the next one and the answer keep the       *)
(* requests well typed.                                                    *)
LEMMA CallsTyped ==
    ASSUME TypeOK, NEW c \in Calls,
           \/ \E s \in Steps, g \in Grants, t \in 0..MaxTokens, u \in Users \cup {NoUser} :
                 Begin(c, s, g, t, u)
           \/ call[c].step # "idle" /\ \E s \in Steps : Proceed(c, s)
           \/ Answer(c)
           \/ call' = call
    PROVE  call' \in [Calls -> CallRecord \cup {Idle}]
<1>0. call \in [Calls -> CallRecord \cup {Idle}]
  BY DEF TypeOK, CallRecord
<1>1. CASE \E s \in Steps, g \in Grants, t \in 0..MaxTokens, u \in Users \cup {NoUser} :
              Begin(c, s, g, t, u)
  <2>1. PICK s \in Steps, g \in Grants, t \in 0..MaxTokens, u \in Users \cup {NoUser} :
            Begin(c, s, g, t, u)
    BY <1>1
  <2>2. [step |-> s, grant |-> g, token |-> t, user |-> u] \in CallRecord
    BY DEF CallRecord
  <2> QED BY <1>0, <2>1, <2>2 DEF Begin
<1>2. CASE call[c].step # "idle" /\ \E s \in Steps : Proceed(c, s)
  <2>1. PICK s \in Steps : Proceed(c, s)
    BY <1>2
  <2>2. call[c] \in CallRecord
    BY <1>2, Served
  <2>3. [call[c] EXCEPT !.step = s] \in CallRecord
    BY <2>2 DEF CallRecord
  <2> QED BY <1>0, <2>1, <2>3 DEF Proceed
<1>3. CASE Answer(c)
  BY <1>0, <1>3 DEF Answer
<1>4. CASE call' = call
  BY <1>0, <1>4
<1> QED BY <1>1, <1>2, <1>3, <1>4

(* Requests aside, the invariant is about the rows and the tokens.         *)
LEMMA SameRows ==
    ASSUME GrantInv, rows' = rows, tokens' = tokens,
           expired' \in [Grants -> BOOLEAN], aged' \in [Grants -> BOOLEAN],
           call' \in [Calls -> CallRecord \cup {Idle}]
    PROVE  GrantInv'
BY DEF GrantInv, TypeOK, NothingBeforeConsent, OneChain, ChainIsRecorded, Issued,
       rows, tokens, CallRecord

(* The initial states have no grant.                                       *)
LEMMA InitInv == Init => GrantInv
<1> SUFFICES ASSUME Init PROVE GrantInv
  OBVIOUS
<1>1. TypeOK
  BY TokensAssumption DEF Init, TypeOK, Tokens
<1>2. NothingBeforeConsent /\ ChainIsRecorded
  BY DEF Init, NothingBeforeConsent, ChainIsRecorded
<1>3. OneChain
  <2> SUFFICES ASSUME NEW g \in Grants, NEW n \in 1..0 PROVE from[g][n] = n - 1
    BY DEF OneChain, Init, Issued
  <2> QED OBVIOUS
<1> QED BY <1>1, <1>2, <1>3 DEF GrantInv

(* The exchange of the device code starts the chain.                       *)
LEMMA RedeemKeeps ==
    ASSUME GrantInv, NEW c \in Calls, RedeemApproved(c) PROVE GrantInv'
<1> DEFINE g == call[c].grant
<1>1. call[c] \in CallRecord /\ g \in Grants
  BY Served DEF GrantInv, RedeemApproved, CallRecord
<1>2. call' \in [Calls -> CallRecord \cup {Idle}]
  BY CallsTyped DEF GrantInv, RedeemApproved
<1>3. CASE status[g] # "approved"
  <2>1. UNCHANGED <<rows, tokens, clock>>
    BY <1>3 DEF RedeemApproved, rows, tokens
  <2> QED BY <1>2, <2>1, SameRows DEF GrantInv, TypeOK, clock
<1>4. CASE status[g] = "approved"
  <2>1. issued[g] = 0 /\ prev[g] = 0
    BY <1>1, <1>4 DEF GrantInv, NothingBeforeConsent
  <2>2. /\ status' = [status EXCEPT ![g] = "redeemed"]
        /\ cur' = [cur EXCEPT ![g] = 1]
        /\ issued' = [issued EXCEPT ![g] = 1]
        /\ from' = [from EXCEPT ![g][1] = 0]
        /\ UNCHANGED <<user, prev, expired, aged>>
    BY <1>1, <1>4, <2>1 DEF RedeemApproved, HandOut, NextToken, clock, GrantInv, TypeOK
  <2>3. 1 \in Tokens /\ 1 \in 0..MaxTokens /\ 0 \in 0..MaxTokens
    BY TokensAssumption DEF Tokens
  <2>4. TypeOK'
    BY <1>1, <1>2, <2>2, <2>3 DEF GrantInv, TypeOK, CallRecord
  <2>5. from'[g][1] = 0
    BY <1>1, <2>2, <2>3 DEF GrantInv, TypeOK
  <2>6. \A h \in Grants : h # g =>
            /\ status'[h] = status[h] /\ user'[h] = user[h] /\ cur'[h] = cur[h]
            /\ prev'[h] = prev[h] /\ issued'[h] = issued[h] /\ from'[h] = from[h]
    BY <1>1, <2>2 DEF GrantInv, TypeOK
  <2>7. /\ status'[g] = "redeemed" /\ cur'[g] = 1 /\ issued'[g] = 1
        /\ prev'[g] = 0
    BY <1>1, <2>1, <2>2 DEF GrantInv, TypeOK
  <2>8. NothingBeforeConsent' /\ ChainIsRecorded'
    BY <2>5, <2>6, <2>7 DEF GrantInv, NothingBeforeConsent, ChainIsRecorded
  <2>9. OneChain'
    BY <2>5, <2>6, <2>7 DEF GrantInv, OneChain, Issued
  <2> QED BY <2>4, <2>8, <2>9 DEF GrantInv
<1> QED BY <1>3, <1>4

(* A rotation extends the chain at its end.                                *)
LEMMA RotateKeeps ==
    ASSUME GrantInv, NEW c \in Calls, RotateRefreshToken(c) PROVE GrantInv'
<1> DEFINE g == call[c].grant
           t == call[c].token
<1>1. call[c] \in CallRecord /\ g \in Grants /\ t \in 0..MaxTokens
  BY Served DEF GrantInv, RotateRefreshToken, CallRecord
<1>2. call' \in [Calls -> CallRecord \cup {Idle}]
  BY CallsTyped DEF GrantInv, RotateRefreshToken
<1>3. CASE ~(status[g] = "redeemed" /\ cur[g] = t /\ ~aged[g])
  <2>1. UNCHANGED <<rows, tokens, clock>>
    BY <1>3 DEF RotateRefreshToken, rows, tokens
  <2> QED BY <1>2, <2>1, SameRows DEF GrantInv, TypeOK, clock
<1>4. CASE status[g] = "redeemed" /\ cur[g] = t /\ ~aged[g]
  <2> DEFINE n == issued[g] + 1
  <2>1. t = issued[g] /\ issued[g] \in 0..MaxTokens /\ issued[g] > 0
    BY <1>1, <1>4 DEF GrantInv, ChainIsRecorded, TypeOK
  <2>2. /\ n <= MaxTokens
        /\ cur' = [cur EXCEPT ![g] = n]
        /\ prev' = [prev EXCEPT ![g] = t]
        /\ issued' = [issued EXCEPT ![g] = n]
        /\ from' = [from EXCEPT ![g][n] = t]
        /\ UNCHANGED <<status, user, expired, aged>>
    BY <1>1, <1>4 DEF RotateRefreshToken, HandOut, NextToken, clock, GrantInv, TypeOK
  <2>3. n \in Tokens /\ n \in 0..MaxTokens
    BY <2>1, <2>2, TokensAssumption DEF Tokens
  <2>4. TypeOK'
    BY <1>1, <1>2, <2>2, <2>3 DEF GrantInv, TypeOK, CallRecord
  <2>5. \A m \in Tokens : from'[g][m] = IF m = n THEN t ELSE from[g][m]
    BY <1>1, <2>2, <2>3 DEF GrantInv, TypeOK
  <2>6. \A h \in Grants : h # g =>
            /\ status'[h] = status[h] /\ user'[h] = user[h] /\ cur'[h] = cur[h]
            /\ prev'[h] = prev[h] /\ issued'[h] = issued[h] /\ from'[h] = from[h]
    BY <1>1, <2>2 DEF GrantInv, TypeOK
  <2>7. /\ status'[g] = "redeemed" /\ cur'[g] = n /\ issued'[g] = n
        /\ prev'[g] = t
    BY <1>1, <1>4, <2>2 DEF GrantInv, TypeOK
  <2>8. NothingBeforeConsent' /\ ChainIsRecorded'
    BY <2>1, <2>3, <2>5, <2>6, <2>7 DEF GrantInv, NothingBeforeConsent, ChainIsRecorded
  <2>9. \A m \in 1..n : from'[g][m] = m - 1
    BY <1>1, <2>1, <2>3, <2>5, TokensAssumption DEF GrantInv, OneChain, Issued, Tokens
  <2>10. OneChain'
    BY <2>6, <2>7, <2>9 DEF GrantInv, OneChain, Issued
  <2> QED BY <2>4, <2>8, <2>10 DEF GrantInv
<1> QED BY <1>3, <1>4

(* The other writes leave the tokens of a live grant alone.                *)
LEMMA OthersKeep ==
    ASSUME GrantInv, NEW c \in Calls, Approve(c) \/ Deny(c) \/ Revoke(c) PROVE GrantInv'
<1> DEFINE g == call[c].grant
<1>1. call[c] \in CallRecord /\ g \in Grants /\ call[c].user \in Users \cup {NoUser}
  BY Served DEF GrantInv, Approve, Deny, Revoke, CallRecord
<1>2. call' \in [Calls -> CallRecord \cup {Idle}]
  BY CallsTyped DEF GrantInv, Approve, Deny, Revoke
<1>3. UNCHANGED <<expired, aged, issued, from>>
  BY DEF Approve, Deny, Revoke, clock, tokens
<1>4. \/ UNCHANGED rows
      \/ /\ status[g] = "pending" /\ UNCHANGED <<cur, prev>>
         /\ status' = [status EXCEPT ![g] = "approved"]
         /\ user' = [user EXCEPT ![g] = call[c].user]
      \/ /\ status[g] = "pending" /\ UNCHANGED <<cur, prev, user>>
         /\ status' = [status EXCEPT ![g] = "denied"]
      \/ /\ UNCHANGED user
         /\ status' = [status EXCEPT ![g] = "revoked"]
         /\ cur' = [cur EXCEPT ![g] = 0]
         /\ prev' = [prev EXCEPT ![g] = 0]
  <2>1. CASE Approve(c)
    BY <2>1 DEF Approve, rows
  <2>2. CASE Deny(c)
    <3>1. CASE status[g] = "pending"
      BY <2>2, <3>1, <1>1 DEF Deny, GrantInv, TypeOK
    <3>2. CASE status[g] # "pending"
      <4>1. status' = status
        BY <2>2, <3>2, <1>1 DEF Deny, GrantInv, TypeOK
      <4> QED BY <2>2, <4>1 DEF Deny, rows
    <3> QED BY <3>1, <3>2
  <2>3. CASE Revoke(c)
    BY <2>3 DEF Revoke, RevokeRow, rows
  <2> QED BY <2>1, <2>2, <2>3
<1>5. CASE UNCHANGED rows
  BY <1>2, <1>3, <1>5, SameRows DEF GrantInv, TypeOK, tokens
<1>6. CASE ~UNCHANGED rows
  <2>0. 0 \in 0..MaxTokens
    BY TokensAssumption
  <2>1. TypeOK'
    <3>1. status' \in [Grants -> {"none", "pending", "approved", "denied",
                                  "redeemed", "revoked", "purged"}]
      BY <1>4, <1>6 DEF GrantInv, TypeOK
    <3>2. user' \in [Grants -> Users \cup {NoUser}]
      BY <1>1, <1>4, <1>6 DEF GrantInv, TypeOK
    <3>3. cur' \in [Grants -> 0..MaxTokens] /\ prev' \in [Grants -> 0..MaxTokens]
      BY <1>4, <1>6, <2>0 DEF GrantInv, TypeOK
    <3> QED BY <1>2, <1>3, <3>1, <3>2, <3>3 DEF GrantInv, TypeOK, CallRecord
  <2>2. NothingBeforeConsent' /\ ChainIsRecorded'
    BY <1>1, <1>3, <1>4, <1>6 DEF GrantInv, TypeOK, NothingBeforeConsent, ChainIsRecorded
  <2>3. OneChain'
    BY <1>3 DEF GrantInv, OneChain, Issued
  <2> QED BY <2>1, <2>2, <2>3 DEF GrantInv
<1> QED BY <1>5, <1>6

(* A new grant and the purge.                                              *)
LEMMA StoreKeeps ==
    ASSUME GrantInv, (\E g \in Grants : CreateGrant(g)) \/ PurgeExpired PROVE GrantInv'
<1>1. UNCHANGED <<user, expired, aged, issued, from, call>>
  BY DEF CreateGrant, PurgeExpired, clock, tokens
<1>2. OneChain'
  BY <1>1 DEF GrantInv, OneChain, Issued
<1>3. CASE \E g \in Grants : CreateGrant(g)
  <2>1. PICK g \in Grants : CreateGrant(g)
    BY <1>3
  <2>2. TypeOK'
    BY <1>1, <2>1 DEF CreateGrant, GrantInv, TypeOK
  <2>3. NothingBeforeConsent' /\ ChainIsRecorded'
    BY <1>1, <2>1 DEF CreateGrant, GrantInv, TypeOK, NothingBeforeConsent, ChainIsRecorded
  <2> QED BY <1>2, <2>2, <2>3 DEF GrantInv
<1>4. CASE PurgeExpired
  <2>1. \A g \in Grants :
            \/ status'[g] = "purged" /\ cur'[g] = 0 /\ prev'[g] = 0
            \/ status'[g] = status[g] /\ cur'[g] = cur[g] /\ prev'[g] = prev[g]
    BY <1>4 DEF PurgeExpired
  <2>2. TypeOK'
    BY <1>1, <1>4, TokensAssumption DEF PurgeExpired, GrantInv, TypeOK
  <2>3. NothingBeforeConsent' /\ ChainIsRecorded'
    BY <1>1, <2>1 DEF GrantInv, NothingBeforeConsent, ChainIsRecorded
  <2> QED BY <1>2, <2>2, <2>3 DEF GrantInv
<1> QED BY <1>3, <1>4

(* Look-ups and the clock change no row.                                   *)
LEMMA ReadsKeep ==
    ASSUME GrantInv,
           \/ \E c \in Calls, g \in Grants, u \in Users : ApproveLooks(c, g, u)
           \/ \E c \in Calls, g \in Grants : DenyLooks(c, g) \/ Poll(c, g) \/ RevokeLooks(c, g)
           \/ \E c \in Calls, g \in Grants, t \in Tokens : Refresh(c, g, t)
           \/ \E c \in Calls : PresentToken(c) \/ DetectReuse(c)
           \/ \E g \in Grants : Expire(g) \/ Age(g)
    PROVE  GrantInv'
<1>1. rows' = rows /\ tokens' = tokens
  BY DEF ApproveLooks, DenyLooks, Poll, RevokeLooks, Refresh, PresentToken, DetectReuse,
         Expire, Age
<1>2. expired' \in [Grants -> BOOLEAN] /\ aged' \in [Grants -> BOOLEAN]
  BY DEF ApproveLooks, DenyLooks, Poll, RevokeLooks, Refresh, PresentToken, DetectReuse,
         Expire, Age, clock, GrantInv, TypeOK
<1>3. call' \in [Calls -> CallRecord \cup {Idle}]
  <2>0. Tokens \subseteq 0..MaxTokens /\ 0 \in 0..MaxTokens
    BY TokensAssumption DEF Tokens
  <2>1. CASE \E c \in Calls, g \in Grants, u \in Users : ApproveLooks(c, g, u)
    BY <2>0, <2>1, CallsTyped DEF ApproveLooks, GrantInv, Steps
  <2>2. CASE \E c \in Calls, g \in Grants : DenyLooks(c, g) \/ Poll(c, g) \/ RevokeLooks(c, g)
    BY <2>0, <2>2, CallsTyped DEF DenyLooks, Poll, RevokeLooks, GrantInv, Steps
  <2>3. CASE \E c \in Calls, g \in Grants, t \in Tokens : Refresh(c, g, t)
    BY <2>0, <2>3, CallsTyped DEF Refresh, GrantInv, Steps
  <2>4. CASE \E c \in Calls : PresentToken(c) \/ DetectReuse(c)
    BY <2>4, CallsTyped DEF PresentToken, DetectReuse, GrantInv, Steps
  <2>5. CASE \E g \in Grants : Expire(g) \/ Age(g)
    BY <2>5 DEF Expire, Age, GrantInv, TypeOK, CallRecord
  <2> QED BY <2>1, <2>2, <2>3, <2>4, <2>5
<1> QED BY <1>1, <1>2, <1>3, SameRows

\* Every request keeps the invariant at both of its halves.
LEMMA NextKeeps == GrantInv /\ [Next]_vars => GrantInv'
<1> SUFFICES ASSUME GrantInv, [Next]_vars PROVE GrantInv'
  OBVIOUS
<1>1. CASE UNCHANGED vars
  BY <1>1, SameRows DEF vars, clock, GrantInv, TypeOK, CallRecord
<1>2. CASE Next
  BY <1>2, RedeemKeeps, RotateKeeps, OthersKeep, StoreKeeps, ReadsKeep DEF Next, Serve
<1> QED BY <1>1, <1>2

(* GrantInv holds in every reachable state: the tokens of a grant form one *)
(* chain whose end the row records, however the requests interleave.       *)
THEOREM Chained == Spec => []GrantInv
<1> QED BY InitInv, NextKeeps, PTL DEF Spec

(* No step brings an ended grant back or hands out a token of it.          *)
THEOREM EndsAreFinal == Spec => EndIsFinal
<1>1. ASSUME GrantInv, Next, NEW g \in Grants,
             status[g] \in {"denied", "revoked", "purged"}
      PROVE  status'[g] \in {status[g], "revoked", "purged"} /\ issued'[g] = issued[g]
  <2>1. CASE \E h \in Grants : CreateGrant(h)
    BY <1>1, <2>1 DEF CreateGrant, tokens, GrantInv, TypeOK
  <2>2. CASE PurgeExpired
    BY <1>1, <2>2 DEF PurgeExpired, tokens, GrantInv, TypeOK
  <2>3. CASE \E c \in Calls : Approve(c) \/ Deny(c)
    BY <1>1, <2>3 DEF Approve, Deny, tokens, GrantInv, TypeOK
  <2>4. CASE \E c \in Calls : RedeemApproved(c) \/ RotateRefreshToken(c)
    BY <1>1, <2>4 DEF RedeemApproved, RotateRefreshToken, HandOut, tokens, GrantInv, TypeOK
  <2>5. CASE \E c \in Calls : Revoke(c)
    BY <1>1, <2>5 DEF Revoke, RevokeRow, tokens, GrantInv, TypeOK
  <2>6. CASE rows' = rows /\ tokens' = tokens
    BY <1>1, <2>6 DEF rows, tokens
  <2> QED BY <1>1, <2>1, <2>2, <2>3, <2>4, <2>5, <2>6
        DEF Next, Serve, ApproveLooks, DenyLooks, Poll, Refresh, RevokeLooks, PresentToken,
            DetectReuse, Expire, Age
<1>2. GrantInv /\ [Next]_vars =>
        [\A g \in Grants :
            status[g] \in {"denied", "revoked", "purged"} =>
                /\ status'[g] \in {status[g], "revoked", "purged"}
                /\ issued'[g] = issued[g]]_vars
  BY <1>1
<1> QED BY <1>2, Chained, PTL DEF Spec, EndIsFinal

(* The user of a grant is set once.                                        *)
THEOREM ConsentIsFinal == Spec => FirstConsentCounts
<1>1. ASSUME GrantInv, Next, NEW g \in Grants, user[g] # NoUser
      PROVE  user'[g] = user[g]
  <2>1. status[g] # "pending"
    BY <1>1 DEF GrantInv, NothingBeforeConsent
  <2>2. CASE \E c \in Calls : Approve(c)
    BY <1>1, <2>1, <2>2 DEF Approve, GrantInv, TypeOK
  <2>3. CASE user' = user
    BY <2>3
  <2> QED BY <1>1, <2>2, <2>3
        DEF Next, Serve, CreateGrant, PurgeExpired, ApproveLooks, DenyLooks, Poll, Refresh,
            RevokeLooks, Deny, RedeemApproved, PresentToken, RotateRefreshToken, DetectReuse,
            Revoke, Expire, Age, rows
<1>2. GrantInv /\ [Next]_vars =>
        [\A g \in Grants : user[g] # NoUser => user'[g] = user[g]]_vars
  BY <1>1
<1> QED BY <1>2, Chained, PTL DEF Spec, FirstConsentCounts
=============================================================================
