------------------------------- MODULE Voting -------------------------------
(***************************************************************************)
(* One poll of one space: routes/polls.ts, applyPollVotes of               *)
(* services/poll.service.ts and the admin's force-close.                   *)
(*                                                                         *)
(* Handlers read the poll with one await and write with a later one;       *)
(* pcall[h] holds what was read.  A vote is counted in one transaction     *)
(* under the voter's advisory lock.  Membership only refuses voters, and a *)
(* refused vote changes nothing.                                           *)
(***************************************************************************)
EXTENDS Naturals, FiniteSets

CONSTANTS Voters, Categories,
          Desks,         \* handlers of reps, voters and admins
          MaxQuantity    \* bound on the quantity a voter asks for

ASSUME VotingAssumption == MaxQuantity \in Nat \ {0} /\ IsFiniteSet(Categories)

VARIABLES poll,      \* the row of the polls table
          pollVotes, \* the quantity recorded for each voter and category
          pcall,     \* the handlers
          shown,     \* the totals voters have been shown
          raced      \* history: reads that were overtaken

pollVars == <<poll, pollVotes, pcall, shown, raced>>

-----------------------------------------------------------------------------
Ballot == [Voters \X Categories -> 0..(2 * MaxQuantity)]

(* past: the deadline has passed.                                           *)
Poll == [status : {"draft", "active", "closed"}, paid : BOOLEAN, past : BOOLEAN, totalVotes : Nat]

(* Reads that were overtaken: the active poll a vote had read, the draft a  *)
(* publication had read, the draft an edit had read.                        *)
Races == {"late", "reopen", "structure"}

(* What an edit says of paid.                                               *)
Price == {"same", "free", "paid"}

(* Where a handler stands: edit, publish, close, auto (autoClose) and cast  *)
(* are about to write; view has the poll as it was read.                    *)
PollCall ==
    [at : {"idle", "publish", "close"}]
    \cup [at : {"edit"}, paid : Price, extend : BOOLEAN]
    \cup [at : {"auto"}, view : BOOLEAN, total : Nat]
    \cup [at : {"cast"}, voter : Voters, choice : SUBSET Categories, quantity : 1..MaxQuantity]

AtDesk == [at |-> "idle"]

VotingTypeOK ==
    /\ poll \in Poll
    /\ pollVotes \in Ballot
    /\ pcall \in [Desks -> PollCall]
    /\ shown \subseteq Nat /\ raced \subseteq Races
    /\ poll.status = "draft" => poll.totalVotes = 0

VotingInit ==
    /\ \E status \in {"draft", "active"}, paid \in BOOLEAN :
          poll = [status |-> status, paid |-> paid, past |-> FALSE, totalVotes |-> 0]
    /\ pollVotes = [vc \in Voters \X Categories |-> 0]
    /\ pcall = [h \in Desks |-> AtDesk]
    /\ shown = {} /\ raced = {}

PollGoto(h, next) == pcall' = [pcall EXCEPT ![h] = next]

(* Once a read was overtaken, the handlers that are running finish and no   *)
(* other begins (the bound on this module).                                 *)
Sits(h, next) ==
    /\ pcall[h] = AtDesk /\ raced = {}
    /\ PollGoto(h, next)

OvertakenBy(h, w, places) ==
    raced' = IF \E g \in Desks \ {h} : pcall[g].at \in places THEN raced \cup {w} ELSE raced

-----------------------------------------------------------------------------
(* Reps and admins                                                         *)

\* Mutant: what is paid can be changed while the poll runs.
PatchPoll_Active(h) ==
    /\ poll.status # "closed"
    /\ \E paid \in Price, extend \in BOOLEAN : Sits(h, [at |-> "edit", paid |-> paid, extend |-> extend])
    /\ UNCHANGED <<poll, pollVotes, shown, raced>>

(* PATCH /polls/:pollId: a draft is edited freely, an active poll keeps its *)
(* structure and its deadline can only be extended.                         *)
PatchPoll(h) ==
    /\ poll.status # "closed"
    /\ \E paid \in Price, extend \in BOOLEAN :
          /\ poll.status = "active" => paid = "same"
          /\ Sits(h, [at |-> "edit", paid |-> paid, extend |-> extend])
    /\ UNCHANGED <<poll, pollVotes, shown, raced>>

(* The fields are written, whatever the poll is by then.                    *)
WritePatch(h) ==
    /\ pcall[h].at = "edit"
    /\ poll' = [poll EXCEPT !.paid = IF pcall[h].paid = "same" THEN @ ELSE pcall[h].paid = "paid",
                            !.past = @ /\ ~pcall[h].extend]
    /\ PollGoto(h, AtDesk)
    /\ UNCHANGED <<pollVotes, shown, raced>>

\* Mutant: a closed poll can be published again.
PublishPoll_Closed(h) ==
    /\ poll.status # "active"
    /\ Sits(h, [at |-> "publish"])
    /\ UNCHANGED <<poll, pollVotes, shown, raced>>

PublishPoll(h) ==
    /\ poll.status = "draft"
    /\ Sits(h, [at |-> "publish"])
    /\ UNCHANGED <<poll, pollVotes, shown, raced>>

WritePublish(h) ==
    /\ pcall[h].at = "publish"
    /\ poll' = [poll EXCEPT !.status = "active"]
    /\ OvertakenBy(h, "structure", {"edit"})
    /\ PollGoto(h, AtDesk)
    /\ UNCHANGED <<pollVotes, shown>>

(* POST /polls/:pollId/close, of a draft or an active poll.                 *)
ClosePoll(h) ==
    /\ poll.status # "closed"
    /\ Sits(h, [at |-> "close"])
    /\ UNCHANGED <<poll, pollVotes, shown, raced>>

(* The poll is closed; a handler that read it open may be under way.        *)
Closes(h) ==
    /\ poll' = [poll EXCEPT !.status = "closed"]
    /\ raced' = raced \cup {w \in {"late", "reopen"} :
                    \E g \in Desks \ {h} : pcall[g].at = IF w = "late" THEN "cast" ELSE "publish"}

WriteClose(h) ==
    /\ pcall[h].at = "close"
    /\ Closes(h)
    /\ PollGoto(h, AtDesk)
    /\ UNCHANGED <<pollVotes, shown>>

(* POST /admin/polls/:pollId/close, of any poll.                            *)
ForceClose(h) ==
    /\ pcall[h] = AtDesk /\ raced = {}
    /\ Closes(h)
    /\ UNCHANGED <<pollVotes, pcall, shown>>

(* The deadline passes.                                                     *)
DeadlinePasses ==
    /\ ~poll.past /\ raced = {}
    /\ poll' = [poll EXCEPT !.past = TRUE]
    /\ UNCHANGED <<pollVotes, pcall, shown, raced>>

-----------------------------------------------------------------------------
(* Voters                                                                  *)

(* GET /polls/:slug: the tallies of a closed poll; one past its deadline is *)
(* closed first, and shown as it was read.                                  *)
ViewPoll(h) ==
    /\ poll.status # "draft"
    /\ IF poll.status = "active" /\ poll.past
       THEN Sits(h, [at |-> "auto", view |-> TRUE, total |-> poll.totalVotes]) /\ UNCHANGED shown
       ELSE /\ pcall[h] = AtDesk /\ raced = {}
            /\ shown' = IF poll.status = "closed" THEN shown \cup {poll.totalVotes} ELSE shown
            /\ UNCHANGED pcall
    /\ UNCHANGED <<poll, pollVotes, raced>>

\* Mutant: a draft takes votes.
Vote_Draft(h) ==
    /\ poll.status # "closed"
    /\ IF poll.past THEN Sits(h, [at |-> "auto", view |-> FALSE, total |-> poll.totalVotes])
       ELSE /\ ~poll.paid
            /\ \E v \in Voters, choice \in SUBSET Categories \ {{}}, n \in 1..MaxQuantity :
                  Sits(h, [at |-> "cast", voter |-> v, choice |-> choice, quantity |-> n])
    /\ UNCHANGED <<poll, pollVotes, shown, raced>>

(* POST /polls/:slug/votes: an active poll within its deadline; paid voting *)
(* is not available.                                                        *)
Vote(h) ==
    /\ poll.status = "active"
    /\ IF poll.past THEN Sits(h, [at |-> "auto", view |-> FALSE, total |-> poll.totalVotes])
       ELSE /\ ~poll.paid
            /\ \E v \in Voters, choice \in SUBSET Categories \ {{}}, n \in 1..MaxQuantity :
                  Sits(h, [at |-> "cast", voter |-> v, choice |-> choice, quantity |-> n])
    /\ UNCHANGED <<poll, pollVotes, shown, raced>>

(* autoClose's write; the deadline may have been extended meanwhile.        *)
AutoClose(h) ==
    /\ pcall[h].at = "auto"
    /\ Closes(h)
    /\ shown' = IF pcall[h].view THEN shown \cup {pcall[h].total} ELSE shown
    /\ PollGoto(h, AtDesk)
    /\ UNCHANGED pollVotes

(* On a free poll each selection counts once.                               *)
Counted(quantity) == 1

\* Mutant: nobody looks for a vote that is there already.
HasVoted_Never(v, choice) == FALSE

HasVoted(v, choice) == \E c \in choice : pollVotes[<<v, c>>] > 0

\* Mutant: the poll's total counts one per ballot.
ApplyPollVotes_PerBallot(v, choice, n) ==
    /\ pollVotes' = [vc \in Voters \X Categories |->
                        IF vc[1] = v /\ vc[2] \in choice THEN pollVotes[vc] + n ELSE pollVotes[vc]]
    /\ poll' = [poll EXCEPT !.totalVotes = @ + n]

(* The votes, and the poll's running total.                                 *)
ApplyPollVotes(v, choice, n) ==
    /\ pollVotes' = [vc \in Voters \X Categories |->
                        IF vc[1] = v /\ vc[2] \in choice THEN pollVotes[vc] + n ELSE pollVotes[vc]]
    /\ poll' = [poll EXCEPT !.totalVotes = @ + n * Cardinality(choice)]

(* The transaction under the advisory lock: ALREADY_VOTED, or counted,      *)
(* whatever the poll is by now.                                             *)
CastVote(h) ==
    LET v == pcall[h].voter
        choice == pcall[h].choice
    IN  /\ pcall[h].at = "cast"
        /\ IF HasVoted(v, choice) THEN UNCHANGED <<poll, pollVotes>>
           ELSE ApplyPollVotes(v, choice, Counted(pcall[h].quantity))
        /\ OvertakenBy(h, "late", {"auto"})
        /\ PollGoto(h, AtDesk)
        /\ UNCHANGED shown

-----------------------------------------------------------------------------
VotingNext ==
    \/ \E h \in Desks :
          \/ PatchPoll(h) \/ WritePatch(h) \/ PublishPoll(h) \/ WritePublish(h) \/ ClosePoll(h) \/ WriteClose(h) \/ ForceClose(h)
          \/ ViewPoll(h) \/ Vote(h) \/ AutoClose(h) \/ CastVote(h)
    \/ DeadlinePasses

VotingSpec == VotingInit /\ [][VotingNext]_pollVars
-----------------------------------------------------------------------------
(* Properties                                                              *)

(* "one vote per user per category" on a free poll, however many of a       *)
(* voter's requests run at once.                                            *)
OneVoteEach == \A vc \in Voters \X Categories : pollVotes[vc] <= 1

(* applyPollVotes: the poll's total counts its votes, each of them one (by  *)
(* OneVoteEach).                                                            *)
TotalIsVotes == poll.totalVotes = Cardinality({vc \in Voters \X Categories : pollVotes[vc] > 0})

(* "Voters see tallies only after close" (GET /polls/:slug): a total that a *)
(* voter was shown is the final one, through any sequence of requests, as   *)
(* long as no vote or publication had read the poll before it was closed.   *)
ShownIsFinal ==
    raced \cap {"late", "reopen"} = {} => \A n \in shown : n = poll.totalVotes

(* "Structural fields are locked once a poll is active" (PATCH): votes are  *)
(* of a free poll, unless it was published after an edit had read the       *)
(* draft.                                                                   *)
VotesAreFree == "structure" \notin raced /\ poll.totalVotes > 0 => ~poll.paid

(* A poll counts one vote a voter and category, counts it fully, shows      *)
(* tallies that do not change, and holds no vote that should have been paid *)
(* for (poll.service.ts, polls.ts).                                         *)
PollIsFair ==
    /\ OneVoteEach
    /\ TotalIsVotes
    /\ ShownIsFinal
    /\ VotesAreFree
=============================================================================
