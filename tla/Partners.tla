------------------------------ MODULE Partners ------------------------------
(***************************************************************************)
(* Partner codes and the spaces that redeem them:                          *)
(* services/partner.service.ts, routes/partners.ts and the redemption that *)
(* follows an application's approval in routes/admin.ts.                   *)
(*                                                                         *)
(* redeemForSpace is one transaction of four steps: it looks for the       *)
(* space's redemption, locks the partner's row, checks the code and counts *)
(* its redemptions, and inserts.  What it inserts others see when it       *)
(* commits; an edit of the partner waits for the row lock.                 *)
(***************************************************************************)
EXTENDS Naturals, FiniteSets

CONSTANTS Codes, Groups,     \* partner codes; spaces that may redeem one
          Tellers,           \* handlers of leads and admins
          NoOne,             \* nobody holds the lock
          Limits,            \* values of maxRedemptions; 0 is null
          Percents

ASSUME PartnersAssumption ==
    /\ Limits \subseteq Nat /\ Percents \subseteq 1..100
    /\ NoOne \notin Tellers \cup Codes

VARIABLES partner,     \* the partners table
          redemption,  \* the partner_redemptions table, by space
          rowLock,     \* who holds the lock on each partner's row
          tcall,       \* the handlers
          redeemed     \* history: how often each space has redeemed

partnerVars == <<partner, redemption, rowLock, tcall, redeemed>>

-----------------------------------------------------------------------------
(* open: isActive, and not past expiresAt.                                  *)
Partner == [open : BOOLEAN, max : Limits, percent : Percents]

Redemption == [code : Codes, discountPercent : Percents, revoked : BOOLEAN, ended : BOOLEAN]

NoRedemption == [code |-> NoOne]

(* lock, check and insert are the next step of redeemForSpace.              *)
TellerCall == [at : {"idle"}]
              \cup [at : {"lock", "check", "insert"}, s : Groups, code : Codes]

NoCall == [at |-> "idle"]

PartnersTypeOK ==
    /\ partner \in [Codes -> Partner]
    /\ redemption \in [Groups -> Redemption \cup {NoRedemption}]
    /\ tcall \in [Tellers -> TellerCall]
    /\ redeemed \in [Groups -> 0..2]
    /\ rowLock \in [Codes -> Tellers \cup {NoOne}]
    /\ \A h \in Tellers, k \in Codes :
          rowLock[k] = h => tcall[h].at \in {"check", "insert"} /\ tcall[h].code = k

PartnersInit ==
    /\ partner \in [Codes -> Partner]
    /\ redemption = [s \in Groups |-> NoRedemption]
    /\ rowLock = [k \in Codes |-> NoOne]
    /\ tcall = [h \in Tellers |-> NoCall]
    /\ redeemed = [s \in Groups |-> 0]

TellerTo(h, next) == tcall' = [tcall EXCEPT ![h] = next]

(* Redemptions that count against the limit.                                *)
Used(k) == {s \in Groups : redemption[s].code = k /\ ~redemption[s].revoked}

(* findRedeemablePartner                                                    *)
FindRedeemablePartner(k) ==
    /\ partner[k].open
    /\ partner[k].max # 0 => Cardinality(Used(k)) < partner[k].max

-----------------------------------------------------------------------------
(* redeemForSpace: a space that never redeemed a code;                      *)
RedeemForSpace(h, s, k) ==
    /\ tcall[h] = NoCall
    /\ redemption[s] = NoRedemption
    /\ TellerTo(h, [at |-> "lock", s |-> s, code |-> k])
    /\ UNCHANGED <<partner, redemption, rowLock, redeemed>>

\* Mutant: the partner's row is not locked.
LockPartner_Skipped(h) ==
    /\ tcall[h].at = "lock"
    /\ TellerTo(h, [tcall[h] EXCEPT !.at = "check"])
    /\ UNCHANGED <<partner, redemption, rowLock, redeemed>>

(* SELECT ... FOR UPDATE;                                                   *)
LockPartner(h) ==
    LET k == tcall[h].code IN
    /\ tcall[h].at = "lock"
    /\ rowLock[k] = NoOne
    /\ rowLock' = [rowLock EXCEPT ![k] = h]
    /\ TellerTo(h, [tcall[h] EXCEPT !.at = "check"])
    /\ UNCHANGED <<partner, redemption, redeemed>>

(* The transaction ends.                                                    *)
Unlocked(h) == [k \in Codes |-> IF rowLock[k] = h THEN NoOne ELSE rowLock[k]]

(* the code is checked;                                                     *)
CheckCode(h) ==
    /\ tcall[h].at = "check"
    /\ IF FindRedeemablePartner(tcall[h].code)
       THEN TellerTo(h, [tcall[h] EXCEPT !.at = "insert"]) /\ UNCHANGED rowLock
       ELSE TellerTo(h, NoCall) /\ rowLock' = Unlocked(h)
    /\ UNCHANGED <<partner, redemption, redeemed>>

\* Mutant: no unique key on the space.
InsertRedemption_NoKey(h) ==
    LET s == tcall[h].s
        k == tcall[h].code
    IN  /\ tcall[h].at = "insert"
        /\ redemption' = [redemption EXCEPT ![s] = [code |-> k, discountPercent |-> partner[k].percent,
                                                    revoked |-> FALSE, ended |-> FALSE]]
        /\ redeemed' = [redeemed EXCEPT ![s] = @ + 1]
        /\ TellerTo(h, NoCall) /\ rowLock' = Unlocked(h)
        /\ UNCHANGED partner

(* and the terms are copied, unless the space has redeemed a code by now    *)
(* (the unique key); the transaction commits.                               *)
InsertRedemption(h) ==
    LET s == tcall[h].s
        k == tcall[h].code
    IN  /\ tcall[h].at = "insert"
        /\ IF redemption[s] = NoRedemption
           THEN /\ redemption' = [redemption EXCEPT ![s] = [code |-> k, discountPercent |-> partner[k].percent,
                                                            revoked |-> FALSE, ended |-> FALSE]]
                /\ redeemed' = [redeemed EXCEPT ![s] = @ + 1]
           ELSE UNCHANGED <<redemption, redeemed>>
        /\ TellerTo(h, NoCall) /\ rowLock' = Unlocked(h)
        /\ UNCHANGED partner

\* Mutant: the lock is taken for the session and outlives a crashed request.
Abort_Locked(h) ==
    /\ tcall[h] # NoCall
    /\ TellerTo(h, NoCall)
    /\ UNCHANGED <<partner, redemption, redeemed, rowLock>>

(* The process dies or the transaction times out: it is rolled back.        *)
Abort(h) ==
    /\ tcall[h] # NoCall
    /\ TellerTo(h, NoCall) /\ rowLock' = Unlocked(h)
    /\ UNCHANGED <<partner, redemption, redeemed>>

\* Mutant: an edit reaches the redemptions too.
PatchPartner_Everyone(k) ==
    /\ rowLock[k] = NoOne
    /\ \E p \in Partner :
          /\ partner' = [partner EXCEPT ![k] = p]
          /\ redemption' = [s \in Groups |-> IF redemption[s].code # k THEN redemption[s]
                                             ELSE [redemption[s] EXCEPT !.discountPercent = p.percent]]
    /\ UNCHANGED <<rowLock, tcall, redeemed>>

(* PATCH /admin/partners/:partnerId, and expiresAt passing.                 *)
PatchPartner(k) ==
    /\ rowLock[k] = NoOne
    /\ \E p \in Partner : partner' = [partner EXCEPT ![k] = p]
    /\ UNCHANGED <<redemption, rowLock, tcall, redeemed>>

(* POST /admin/partner-redemptions/:redemptionId/revoke                     *)
RevokeRedemption(s) ==
    /\ redemption[s] # NoRedemption /\ ~redemption[s].revoked
    /\ redemption' = [redemption EXCEPT ![s].revoked = TRUE]
    /\ UNCHANGED <<partner, rowLock, tcall, redeemed>>

(* endsAt passes.                                                           *)
RedemptionEnds(s) ==
    /\ redemption[s] # NoRedemption /\ ~redemption[s].ended
    /\ redemption' = [redemption EXCEPT ![s].ended = TRUE]
    /\ UNCHANGED <<partner, rowLock, tcall, redeemed>>

PartnersNext ==
    \/ \E h \in Tellers : \/ LockPartner(h) \/ CheckCode(h) \/ InsertRedemption(h) \/ Abort(h)
                          \/ \E s \in Groups, k \in Codes : RedeemForSpace(h, s, k)
    \/ \E k \in Codes : PatchPartner(k)
    \/ \E s \in Groups : RevokeRedemption(s) \/ RedemptionEnds(s)

PartnersSpec == PartnersInit /\ [][PartnersNext]_partnerVars
-----------------------------------------------------------------------------
(* getActiveDiscount: what a withdrawal of the space gets off its fee.      *)
ActiveDiscount(s) ==
    IF redemption[s] = NoRedemption \/ redemption[s].revoked \/ redemption[s].ended THEN 0
    ELSE redemption[s].discountPercent

(* Properties                                                              *)

(* "concurrent redemptions can't overshoot maxRedemptions": a redemption    *)
(* leaves no more than the limit, with spaces, codes and revocations racing.*)
NeverOvershoots ==
    [][\A k \in Codes : Cardinality(Used(k)') > Cardinality(Used(k)) /\ partner[k].max # 0
                        => Cardinality(Used(k)') <= partner[k].max]_partnerVars

(* A code is applied "once per space", by whichever route and with          *)
(* whichever codes at once, and a revoked redemption is not replaced.       *)
RedeemedOnce == \A s \in Groups : redeemed[s] <= 1

(* "editing or deactivating the partner later never changes a space's       *)
(* existing terms": the discount of a space only goes away.                 *)
TermsAreKept ==
    [][\A s \in Groups : ActiveDiscount(s) # 0 => ActiveDiscount(s)' \in {ActiveDiscount(s), 0}]_partnerVars

(* A space redeems once, a code is not redeemed beyond its limit, and the   *)
(* terms a space redeemed on stay its terms (partner.service.ts).           *)
RedemptionsHold ==
    /\ []RedeemedOnce
    /\ NeverOvershoots
    /\ TermsAreKept
=============================================================================
