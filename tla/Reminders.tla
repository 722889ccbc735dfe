------------------------------ MODULE Reminders ------------------------------
(***************************************************************************)
(* The "finish your verification" mails to one rep applicant:              *)
(* jobs/kycReminders.ts, in any number of processes.  A pass reads the     *)
(* applicant, claims the stage that is due, sends the mail, and gives the  *)
(* stage back if the mail failed.                                          *)
(***************************************************************************)
EXTENDS Naturals

CONSTANTS Passes      \* passes over the applicants, each of some process

Stages == 1..3

VARIABLES stage,      \* kycReminderStage
          age,        \* the last stage whose time has come
          owes,       \* a KYC step is outstanding, and the account may be mailed
          pass,       \* where each pass stands
          mails       \* how often each stage's mail went out

reminderVars == <<stage, age, owes, pass, mails>>

-----------------------------------------------------------------------------
Pass == [at : {"idle"}]
        \cup [at : {"claim", "send", "back"}, from : 0..3, due : Stages]

NoPass == [at |-> "idle"]

RemindersTypeOK ==
    /\ stage \in 0..3 /\ age \in 0..3 /\ owes \in BOOLEAN
    /\ pass \in [Passes -> Pass]
    /\ mails \in [Stages -> 0..2]
    /\ stage <= age

RemindersInit ==
    /\ stage = 0 /\ age = 0 /\ owes = TRUE
    /\ pass = [w \in Passes |-> NoPass]
    /\ mails = [s \in Stages |-> 0]

PassTo(w, next) == pass' = [pass EXCEPT ![w] = next]

\* Mutant: the stage whose time comes next.
DueStage_Early(now) == IF now < 3 THEN now + 1 ELSE now

(* The latest stage that is due, not the first that was missed.             *)
DueStage(now) == now

(* sendKycRemindersOnce: the applicant is among those a reminder is due to. *)
SendKycRemindersOnce(w) ==
    /\ pass[w] = NoPass
    /\ owes /\ stage < age
    /\ PassTo(w, [at |-> "claim", from |-> stage, due |-> DueStage(age)])
    /\ UNCHANGED <<stage, age, owes, mails>>

\* Mutant: the claim does not look at the stage.
ClaimStage_Unconditional(w) ==
    /\ pass[w].at = "claim"
    /\ stage' = pass[w].due
    /\ PassTo(w, [pass[w] EXCEPT !.at = "send"])
    /\ UNCHANGED <<age, owes, mails>>

(* The conditional update on the stage that was read.                       *)
ClaimStage(w) ==
    /\ pass[w].at = "claim"
    /\ IF stage = pass[w].from
       THEN stage' = pass[w].due /\ PassTo(w, [pass[w] EXCEPT !.at = "send"])
       ELSE UNCHANGED stage /\ PassTo(w, NoPass)
    /\ UNCHANGED <<age, owes, mails>>

SendMail(w) ==
    /\ pass[w].at = "send"
    /\ \/ /\ mails' = [mails EXCEPT ![pass[w].due] = @ + 1]
          /\ PassTo(w, NoPass)
       \/ /\ PassTo(w, [pass[w] EXCEPT !.at = "back"])
          /\ UNCHANGED mails
    /\ UNCHANGED <<stage, age, owes>>

(* The mail failed.                                                         *)
GiveBack(w) ==
    /\ pass[w].at = "back"
    /\ stage' = IF stage = pass[w].due THEN pass[w].from ELSE stage
    /\ PassTo(w, NoPass)
    /\ UNCHANGED <<age, owes, mails>>

(* A process dies; a stage it had claimed is lost.                          *)
PassDies(w) ==
    /\ pass[w] # NoPass
    /\ PassTo(w, NoPass)
    /\ UNCHANGED <<stage, age, owes, mails>>

(* The next stage's time comes.                                             *)
GrowsOlder ==
    /\ age < 3
    /\ age' = age + 1
    /\ UNCHANGED <<stage, owes, pass, mails>>

(* The applicant completes the steps (Onboarding), or fails one again.      *)
OwesAgain ==
    /\ owes' = ~owes
    /\ UNCHANGED <<stage, age, pass, mails>>

RemindersNext ==
    \/ \E w \in Passes : \/ SendKycRemindersOnce(w) \/ ClaimStage(w) \/ SendMail(w)
                         \/ GiveBack(w) \/ PassDies(w)
    \/ GrowsOlder \/ OwesAgain

RemindersSpec == RemindersInit /\ [][RemindersNext]_reminderVars
-----------------------------------------------------------------------------
(* Properties                                                              *)

(* "two workers never send the same reminder twice" (kycReminders.ts):      *)
(* failed mails, late give-backs and dying processes included.  (A mail     *)
(* that was delivered although sending it failed is sent again.)            *)
RemindedOnce == \A s \in Stages : mails[s] <= 1
=============================================================================
