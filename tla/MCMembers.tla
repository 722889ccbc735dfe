------------------------------ MODULE MCMembers ------------------------------
(* What a student meets: an account and its sessions, the dues of a space    *)
(* and who belongs to it, and the reminders sent to an applicant.  The three *)
(* share no state, so a behaviour is of one of them, chosen at the start,    *)
(* with the others at rest.                                                  *)
EXTENDS Sessions, Dues, Reminders, TLC

VARIABLE part

membersVars == <<sessionVars, duesVars, reminderVars, part>>

MembersInit ==
    /\ part \in {"sessions", "dues", "reminders"}
    /\ SessionsInit
    /\ DuesInit
    /\ RemindersInit

MembersNext ==
    \/ part = "sessions" /\ SessionsNext /\ UNCHANGED <<duesVars, reminderVars, part>>
    \/ part = "dues" /\ DuesNext /\ UNCHANGED <<sessionVars, reminderVars, part>>
    \/ part = "reminders" /\ RemindersNext /\ UNCHANGED <<sessionVars, duesVars, part>>

MembersSpec == MembersInit /\ [][MembersNext]_membersVars

(* Handlers (of each part), tokens and passwords are interchangeable.        *)
Symmetry == Permutations(Handlers) \cup Permutations(Tokens) \cup Permutations(Passwords)

(* The rows and calls of each part stay what its code can write.            *)
MembersTypeOK ==
    /\ SessionsTypeOK
    /\ DuesTypeOK
    /\ RemindersTypeOK
==============================================================================
