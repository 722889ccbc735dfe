------------------------------- MODULE MCReps -------------------------------
(* What a rep meets beside the money: being verified, disputes, polls,      *)
(* partner codes, the bank accounts of a space, idempotency keys and the    *)
(* arithmetic of fees.  They share no state, so a behaviour is of one of them, chosen at  *)
(* the start, with the others at rest.                                      *)
EXTENDS Onboarding, Disputes, Voting, Partners, Beneficiaries, Idempotency, Money, TLC

VARIABLE part

repsVars == <<onboardingVars, disputeVars, pollVars, partnerVars, beneficiaryVars, idempotencyVars, moneyVars, part>>

(* The parts that are at rest begin in one of their initial states.         *)
AtRest(p, fixed) == part = p \/ fixed

RepsInit ==
    /\ part \in {"onboarding", "disputes", "polls", "partners", "beneficiaries", "keys", "money"}
    /\ OnboardingInit
    /\ DisputesInit
    /\ VotingInit /\ AtRest("polls", poll.status = "draft" /\ ~poll.paid)
    /\ PartnersInit /\ AtRest("partners", \A k \in Codes : partner[k] = CHOOSE terms \in Partner : TRUE)
    /\ BeneficiariesInit /\ AtRest("beneficiaries", Saved = {} /\ lead = CHOOSE a \in Leads : TRUE)
    /\ IdempotencyInit /\ AtRest("keys", \A r \in Requests : body[r] = CHOOSE b \in Bodies : TRUE)
    /\ MoneyInit

RepsNext ==
    \/ /\ part = "onboarding" /\ OnboardingNext
       /\ UNCHANGED <<disputeVars, pollVars, partnerVars, beneficiaryVars, idempotencyVars, moneyVars, part>>
    \/ /\ part = "disputes" /\ DisputesNext
       /\ UNCHANGED <<onboardingVars, pollVars, partnerVars, beneficiaryVars, idempotencyVars, moneyVars, part>>
    \/ /\ part = "polls" /\ VotingNext
       /\ UNCHANGED <<onboardingVars, disputeVars, partnerVars, beneficiaryVars, idempotencyVars, moneyVars, part>>
    \/ /\ part = "partners" /\ PartnersNext
       /\ UNCHANGED <<onboardingVars, disputeVars, pollVars, beneficiaryVars, idempotencyVars, moneyVars, part>>
    \/ /\ part = "beneficiaries" /\ BeneficiariesNext
       /\ UNCHANGED <<onboardingVars, disputeVars, pollVars, partnerVars, idempotencyVars, moneyVars, part>>
    \/ /\ part = "keys" /\ IdempotencyNext
       /\ UNCHANGED <<onboardingVars, disputeVars, pollVars, partnerVars, beneficiaryVars, moneyVars, part>>
    \/ /\ part = "money" /\ MoneyNext
       /\ UNCHANGED <<onboardingVars, disputeVars, pollVars, partnerVars, beneficiaryVars, idempotencyVars, part>>

RepsSpec == RepsInit /\ [][RepsNext]_repsVars

(* Two handlers (Reps, Tellers, Cashiers, Admins) are interchangeable, and  *)
(* so are three of the things each part has (Files, Desks, Requests, Banks).       *)
Symmetry == Permutations(Reps) \cup Permutations(Files)

(* The rows and calls of each part stay what its code can write.            *)
RepsTypeOK ==
    /\ OnboardingTypeOK
    /\ DisputesTypeOK
    /\ VotingTypeOK
    /\ PartnersTypeOK
    /\ BeneficiariesTypeOK
    /\ IdempotencyTypeOK

(* What was decided stays decided: the third refusal of requests that do    *)
(* not overlap locks an applicant out (kyc.service.ts), a dispute is        *)
(* decided once unless an overtaken claim reopened it (admin.ts), and a     *)
(* withdrawal in flight keeps its target (beneficiary.service.ts).          *)
DecisionsHold ==
    /\ ThirdRefusalLocks
    /\ DecidedOnce
    /\ InFlightKeepsItsTarget
=============================================================================
