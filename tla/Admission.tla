------------------------------ MODULE Admission ------------------------------
(***************************************************************************)
(* Who may open an account: the waitlist (waitlist.ts), the invitations    *)
(* members send themselves (referral-access.ts), what uses them up         *)
(* (account-provisioning.ts), and what takes them back: the recipient's    *)
(* stop link (invitation-preferences.ts), the mail provider's reports      *)
(* (email-events.ts), the staff (access-admin-actions.ts, user-admin.ts,   *)
(* admission-admin.ts) and the deletion of an account.                     *)
(*                                                                         *)
(* Every one of these runs in one transaction under one lock (lockAccess), *)
(* so each is one step here.  What is hard is not their interleaving but   *)
(* their order: there is no unique index on the open invitation of an      *)
(* address, and a waitlist entry, an invitation, a block and a link of the *)
(* same address change in different handlers, weeks apart.                 *)
(***************************************************************************)
EXTENDS Naturals, Sequences, FiniteSets

CONSTANTS
  People,        \* addresses; those with an account may invite
  Phones,        \* numbers an invitation may be sent to instead
  Founders,      \* the addresses with an account at the start
  Policies,      \* what the staff may set the limits and pauses to
  Half,          \* WAITLIST_BATCH_HALF
  Allowance,     \* REFERRAL_INVITE_LIMIT
  Platform,      \* the inviter of a wave and of a selection by the staff
  MaxEvents,     \* bound: steps of people (the schedule's own steps are not counted)
  MaxInvites     \* bound: invitations of one recipient

Limits == [accounts : Nat, outstanding : Nat,
           collectionPaused : BOOLEAN, grantsPaused : BOOLEAN,
           referralsPaused : BOOLEAN, redemptionPaused : BOOLEAN]

ASSUME AdmissionAssumption ==
  /\ IsFiniteSet(People) /\ IsFiniteSet(Phones)
  /\ People \cap Phones = {} /\ Founders \subseteq People
  /\ Policies \subseteq Limits /\ Policies # {}
  /\ \A p \in Policies : p.outstanding <= p.accounts
  /\ Half \in Nat \ {0} /\ Allowance \in Nat
  /\ Platform \notin People
  /\ MaxEvents \in Nat /\ MaxInvites \in Nat

VARIABLES
  entry,         \* the waitlist: of each address its status, and whether it is confirmed
  ahead,         \* <<d, e>>: both are on it, and d's request is the older (createdAt)
  invites,       \* of each recipient, every invitation ever made to it
  account,       \* the addresses with an account
  suspended,     \* those of them whose access is paused
  issued,        \* how many invitations each member has used of the allowance
  blocks,        \* of each address, why nothing may be sent to it
  confirmLink,   \* the addresses with a confirmation link not used yet
  stopLink,      \* the addresses with a link that stops invitations, not used yet
  policy,        \* the limits and pauses in force
  schedule,      \* the weekly wave
  asked,         \* history: who has requested access since they were last stopped or blocked
  offered,       \* history: who has been given a stop link since they last rejoined
  events         \* how much of MaxEvents is used

waitlistVars == <<entry, ahead, confirmLink, stopLink, asked, offered>>
memberVars == <<account, suspended, issued>>
settingVars == <<policy, schedule>>
admissionVars == <<waitlistVars, memberVars, settingVars, invites, blocks, events>>

Recipients == People \union Phones
Entry == [status : {"ABSENT", "WAITING", "ACCESS_GRANTED", "JOINED", "WITHDRAWN", "SUPPRESSED"},
          verified : BOOLEAN]
Invite == [by : People \union {Platform}, state : {"open", "accepted", "revoked", "deleted"}]
Absent == [status |-> "ABSENT", verified |-> FALSE]

AdmissionTypeOK ==
  /\ entry \in [People -> Entry]
  /\ ahead \subseteq People \X People
  /\ invites \in [Recipients -> Seq(Invite)]
  /\ account \subseteq People /\ suspended \subseteq account
  /\ issued \in [People -> 0..Allowance]
  /\ blocks \in [People -> SUBSET {"OPTOUT", "PROVIDER"}]
  /\ confirmLink \subseteq People /\ stopLink \subseteq People
  /\ policy \in Policies
  /\ schedule \in [paused : BOOLEAN, due : BOOLEAN]
  /\ asked \subseteq People /\ offered \subseteq People
  /\ events \in 0..MaxEvents

\* The entries there may be when the model starts: confirmed requests, in any order.
AdmissionInit ==
  /\ entry \in [People -> {Absent, [status |-> "WAITING", verified |-> TRUE]}]
  /\ \A e \in Founders : entry[e] = Absent
  /\ ahead \in {rel \in SUBSET (People \X People) :
                 \A d, e \in People :
                   /\ <<d, e>> \in rel => d # e /\ <<e, d>> \notin rel
                   /\ <<d, e>> \in rel \/ <<e, d>> \in rel
                        <=> d # e /\ entry[d] # Absent /\ entry[e] # Absent
                   /\ \A c \in People : <<c, d>> \in rel /\ <<d, e>> \in rel => <<c, e>> \in rel}
  /\ invites = [r \in Recipients |-> <<>>]
  /\ account = Founders /\ suspended = {}
  /\ issued = [e \in People |-> 0]
  /\ blocks = [e \in People |-> {}]
  /\ confirmLink = {} /\ stopLink = {}
  /\ policy \in Policies
  /\ schedule = [paused |-> FALSE, due |-> FALSE]
  /\ asked = {} /\ offered = {}
  /\ events = 0

Event == events < MaxEvents /\ events' = events + 1

-----------------------------------------------------------------------------
(***************************************************************************)
(* What the handlers read and write.                                       *)
(***************************************************************************)

OpenOf(r) == {i \in DOMAIN invites[r] : invites[r][i].state = "open"}
Invited(r) == OpenOf(r) # {}
Blocked(e) == blocks[e] # {}
Status(e) == entry[e].status

\* Unused invitations of the platform: those of members have their own allowance and reserve nothing.
Outstanding ==
  Cardinality({k \in Recipients \X (1..MaxInvites) :
                 k[2] \in OpenOf(k[1]) /\ invites[k[1]][k[2]].by = Platform})

Least(m, n) == IF m < n THEN m ELSE n

\* Mutant of Fits: what is outstanding is not counted against the limit on accounts.
FitsAccountsOnly(n) ==
  /\ Cardinality(account) + n <= policy.accounts
  /\ Outstanding + n <= policy.outstanding

Fits(n) ==
  /\ n > 0 => Cardinality(account) + Outstanding + n <= policy.accounts
  /\ n > 0 => Outstanding + n <= policy.outstanding

\* An invitation to r by m, appended to those r has had.
WithNew(r, m) == Append(invites[r], [by |-> m, state |-> "open"])

\* What r has had, the open ones made by `inviters` taken back.
Revoked(r, inviters) ==
  [i \in DOMAIN invites[r] |->
     IF invites[r][i].state = "open" /\ invites[r][i].by \in inviters
     THEN [invites[r][i] EXCEPT !.state = "revoked"] ELSE invites[r][i]]

Anyone == People \union {Platform}

Waiting(e) == Status(e) = "WAITING" /\ entry[e].verified

Others(e) == {pair \in ahead : pair[1] # e /\ pair[2] # e}

\* e takes a place behind everyone on the list; e has no place any more.
ToTheEnd(e) == ahead' = Others(e) \union {<<d, e>> : d \in {d \in People \ {e} : Status(d) # "ABSENT"}}
OutOfLine(e) == ahead' = Others(e)

-----------------------------------------------------------------------------
(***************************************************************************)
(* The waitlist.                                                           *)
(***************************************************************************)

\* Only an address that is not on the list, not confirmed yet, or off it by its own wish or a block
\* that was cleared, gets a link.  To the others nothing happens, and the answer is the same.
Request(e) ==
  /\ Event
  /\ ~policy.collectionPaused
  /\ e \notin account /\ ~Invited(e) /\ "PROVIDER" \notin blocks[e]
  /\ \/ /\ Status(e) = "ABSENT"
        /\ entry' = [entry EXCEPT ![e] = [status |-> "WAITING", verified |-> FALSE]]
        /\ ToTheEnd(e)
     \/ /\ Status(e) \in {"WITHDRAWN", "SUPPRESSED"} \/ (Status(e) = "WAITING" /\ ~entry[e].verified)
        /\ UNCHANGED <<entry, ahead>>
  /\ confirmLink' = confirmLink \union {e}
  /\ asked' = asked \union {e}
  /\ UNCHANGED <<stopLink, offered, memberVars, settingVars, invites, blocks>>

\* Mutant of Rejoins: whoever confirms a link gets a new place.
RejoinsAnyway(e) == Status(e) \in {"WAITING", "WITHDRAWN", "SUPPRESSED"}

\* The confirmation of one who had stopped, or was blocked, is a new request.
Rejoins(e) ==
  \/ Status(e) \in {"WITHDRAWN", "SUPPRESSED"}
  \/ Status(e) = "WAITING" /\ "OPTOUT" \in blocks[e]

Confirm(e) ==
  /\ Event
  /\ e \in confirmLink
  /\ confirmLink' = confirmLink \ {e}
  /\ \/ /\ "PROVIDER" \in blocks[e]
        /\ UNCHANGED <<blocks, entry, ahead, stopLink, offered>>
     \/ /\ "PROVIDER" \notin blocks[e]
        /\ blocks' = [blocks EXCEPT ![e] = {}]
        /\ \/ /\ Rejoins(e)
              /\ entry' = [entry EXCEPT ![e] = [status |-> "WAITING", verified |-> TRUE]]
              /\ ToTheEnd(e)
              /\ stopLink' = stopLink \ {e} /\ offered' = offered \ {e}
           \/ /\ ~Rejoins(e)
              /\ entry' = [entry EXCEPT ![e].verified = @ \/ Status(e) = "WAITING"]
              /\ UNCHANGED <<ahead, stopLink, offered>>
  /\ UNCHANGED <<asked, memberVars, settingVars, invites>>

\* Retention: a month on, an unconfirmed request is dropped.  The code waits for its link to expire,
\* if it was asked for again, and asks that no access was granted, which is so of all who wait here.
ForgetUnconfirmed(e) ==
  /\ Event
  /\ Status(e) = "WAITING" /\ ~entry[e].verified /\ ~Invited(e)
  /\ entry' = [entry EXCEPT ![e] = Absent]
  /\ OutOfLine(e)
  /\ confirmLink' = confirmLink \ {e}
  /\ UNCHANGED <<stopLink, asked, offered, memberVars, settingVars, invites, blocks>>

\* Mutant of StatusNow: an invitation made elsewhere leaves the entry waiting.
StatusNowButInvited(e) ==
  IF Status(e) \notin {"WAITING", "ACCESS_GRANTED"} THEN Status(e)
  ELSE IF "PROVIDER" \in blocks[e] THEN "SUPPRESSED"
  ELSE IF Blocked(e) THEN "WITHDRAWN"
  ELSE IF e \in account THEN "JOINED" ELSE Status(e)

\* The status the blocks, the accounts and the open invitations give an entry.
StatusNow(e) ==
  IF Status(e) \notin {"WAITING", "ACCESS_GRANTED"} THEN Status(e)
  ELSE IF "PROVIDER" \in blocks[e] THEN "SUPPRESSED"
  ELSE IF Blocked(e) THEN "WITHDRAWN"
  ELSE IF e \in account THEN "JOINED"
  ELSE IF Invited(e) THEN "ACCESS_GRANTED" ELSE Status(e)

Reconciled == [e \in People |-> [entry[e] EXCEPT !.status = StatusNow(e)]]

\* Those confirmed and still waiting once the waitlist is reconciled.
Eligible == {e \in People : entry[e].verified /\ StatusNow(e) = "WAITING"}

\* Each of `chosen` gets an invitation of the platform, whose mail carries a stop link.
Grant(chosen) ==
  /\ \A e \in chosen : Len(invites[e]) < MaxInvites
  /\ entry' = [e \in People |-> [entry[e] EXCEPT !.status = IF e \in chosen THEN "ACCESS_GRANTED"
                                                             ELSE StatusNow(e)]]
  /\ invites' = [r \in Recipients |-> IF r \in chosen THEN WithNew(r, Platform) ELSE invites[r]]
  /\ stopLink' = stopLink \union chosen /\ offered' = offered \union chosen

\* A selection that does not fit as a whole is refused as a whole.
InviteSelected(selection) ==
  LET chosen == selection \cap Eligible
  IN  /\ Event
      /\ chosen # {} => ~policy.grantsPaused /\ Fits(Cardinality(chosen))
      /\ Grant(chosen)
      /\ UNCHANGED <<ahead, confirmLink, asked, memberVars, settingVars, blocks>>

\* Mutant of WaveSize: a wave needs room for a full batch, however few are waiting.
FullWave(n) == 2 * Half
WaveSize(n) == Least(n, 2 * Half)

\* The oldest requests, and as many of the others at random.  A wave without room for all it would
\* take keeps its slot for later, and still leaves the waitlist reconciled.
RunWave ==
  LET eligible == Eligible
      oldest == {e \in eligible : Cardinality({d \in eligible : <<d, e>> \in ahead}) < Half}
      others == eligible \ oldest
      fits == ~policy.grantsPaused /\ Fits(WaveSize(Cardinality(eligible)))
  IN  /\ ~schedule.paused /\ schedule.due
      /\ \/ /\ fits
            /\ \E lucky \in SUBSET others :
                 /\ Cardinality(lucky) = Least(Half, Cardinality(others))
                 /\ Grant(oldest \union lucky)
            /\ schedule' = [schedule EXCEPT !.due = FALSE]
         \/ /\ ~fits
            /\ entry' = Reconciled
            /\ UNCHANGED <<invites, stopLink, offered, schedule>>
      /\ UNCHANGED <<ahead, confirmLink, asked, memberVars, policy, blocks, events>>

\* A week has passed.  However many have, one wave is due.
SlotComes ==
  /\ ~schedule.due
  /\ schedule' = [schedule EXCEPT !.due = TRUE]
  /\ UNCHANGED <<waitlistVars, memberVars, policy, invites, blocks, events>>

\* Resuming starts a week of its own.
SetSchedule(paused) ==
  /\ Event
  /\ schedule.paused # paused
  /\ schedule' = [paused |-> paused, due |-> paused /\ schedule.due]
  /\ UNCHANGED <<waitlistVars, memberVars, policy, invites, blocks>>

-----------------------------------------------------------------------------
(***************************************************************************)
(* Members, and those they invite.                                         *)
(***************************************************************************)

MayBeInvited(m, r) ==
  /\ ~Invited(r)
  /\ r \in People => r \notin account /\ ~Blocked(r)

\* Mutant of HasAllowance: one invitation too many.
HasAllowanceAndOne(m) == issued[m] <= Allowance
HasAllowance(m) == issued[m] < Allowance

\* A member sends the invitation themselves: it uses their allowance and reserves no capacity.
MemberInvites(m, r) ==
  /\ Event
  /\ m \in account \ suspended
  /\ MayBeInvited(m, r)
  /\ ~policy.grantsPaused /\ ~policy.referralsPaused
  /\ HasAllowance(m)
  /\ Len(invites[r]) < MaxInvites
  /\ issued' = [issued EXCEPT ![m] = @ + 1]
  /\ invites' = [invites EXCEPT ![r] = WithNew(r, m)]
  /\ entry' = [e \in People |-> IF e = r /\ Status(e) = "WAITING"
                                THEN [entry[e] EXCEPT !.status = "ACCESS_GRANTED"] ELSE entry[e]]
  /\ UNCHANGED <<ahead, confirmLink, stopLink, asked, offered, account, suspended, settingVars, blocks>>

\* An account is opened with an invitation sent to its address, or to a number.
Redeem(e, r) ==
  /\ Event
  /\ e \notin account
  /\ r \in {e} \union Phones
  /\ ~policy.redemptionPaused
  /\ \E i \in OpenOf(r) : invites' = [invites EXCEPT ![r][i].state = "accepted"]
  /\ account' = account \union {e}
  /\ entry' = [entry EXCEPT ![e].status = IF @ \in {"ABSENT", "WITHDRAWN"} THEN @ ELSE "JOINED"]
  /\ UNCHANGED <<ahead, confirmLink, stopLink, asked, offered, suspended, issued, settingVars, blocks>>

\* The staff, or the member who made it, take one invitation back.
RevokeInvite(r) ==
  /\ Event
  /\ \E i \in OpenOf(r) : invites' = [invites EXCEPT ![r][i].state = "revoked"]
  /\ UNCHANGED <<waitlistVars, memberVars, settingVars, blocks>>

Suspend(m) ==
  /\ Event
  /\ m \in account \ suspended
  /\ suspended' = suspended \union {m}
  /\ invites' = [r \in Recipients |-> Revoked(r, {m})]
  /\ UNCHANGED <<waitlistVars, account, issued, settingVars, blocks>>

Restore(m) ==
  /\ Event
  /\ m \in suspended
  /\ suspended' = suspended \ {m}
  /\ UNCHANGED <<waitlistVars, account, issued, settingVars, invites, blocks>>

\* Everything of the person goes, the invitations they made with it.
DeleteAccount(m) ==
  /\ Event
  /\ m \in account
  /\ account' = account \ {m} /\ suspended' = suspended \ {m}
  /\ issued' = [issued EXCEPT ![m] = 0]
  /\ entry' = [entry EXCEPT ![m] = Absent]
  /\ OutOfLine(m)
  /\ confirmLink' = confirmLink \ {m} /\ stopLink' = stopLink \ {m}
  /\ invites' = [r \in Recipients |-> [i \in DOMAIN invites[r] |->
                   IF invites[r][i].by = m THEN [invites[r][i] EXCEPT !.state = "deleted"]
                   ELSE invites[r][i]]]
  /\ UNCHANGED <<asked, offered, settingVars, blocks>>

-----------------------------------------------------------------------------
(***************************************************************************)
(* What stops invitations, and the staff's settings.                       *)
(***************************************************************************)

\* The address leaves the waitlist as `status`, and what is open to it is taken back.
Leaves(e, status) ==
  /\ entry' = [entry EXCEPT ![e].status = IF @ \in {"WAITING", "ACCESS_GRANTED"} THEN status ELSE @]
  /\ invites' = [invites EXCEPT ![e] = Revoked(e, Anyone)]

RequestStopLink(e) ==
  /\ Event
  /\ ~Blocked(e)
  /\ Status(e) \in {"WAITING", "ACCESS_GRANTED"} \/ Invited(e)
  /\ stopLink' = stopLink \union {e}
  /\ offered' = offered \union {e}
  /\ UNCHANGED <<entry, ahead, confirmLink, asked, memberVars, settingVars, invites, blocks>>

\* Mutant of Stop: a confirmation link sent before goes on working.
StopLeavingLink(e) ==
  /\ Event
  /\ e \in stopLink
  /\ stopLink' = stopLink \ {e}
  /\ asked' = asked \ {e}
  /\ blocks' = [blocks EXCEPT ![e] = @ \union {"OPTOUT"}]
  /\ Leaves(e, "WITHDRAWN")
  /\ UNCHANGED <<ahead, confirmLink, offered, memberVars, settingVars>>

\* The recipient posts the form their stop link leads to: every link of theirs is used up.
Stop(e) ==
  /\ Event
  /\ e \in stopLink
  /\ stopLink' = stopLink \ {e} /\ confirmLink' = confirmLink \ {e}
  /\ asked' = asked \ {e}
  /\ blocks' = [blocks EXCEPT ![e] = @ \union {"OPTOUT"}]
  /\ Leaves(e, "WITHDRAWN")
  /\ UNCHANGED <<ahead, offered, memberVars, settingVars>>

\* Mutant of ProviderEvent: what is open stays open.
ProviderEventOnly(e) ==
  /\ Event
  /\ blocks' = [blocks EXCEPT ![e] = @ \union {"PROVIDER"}]
  /\ entry' = [entry EXCEPT ![e].status = IF @ \in {"WAITING", "ACCESS_GRANTED"} THEN "SUPPRESSED" ELSE @]
  /\ confirmLink' = confirmLink \ {e} /\ asked' = asked \ {e}
  /\ UNCHANGED <<ahead, stopLink, offered, memberVars, settingVars, invites>>

\* A permanent bounce, a complaint or a suppression, later than any the staff have cleared.
ProviderEvent(e) ==
  /\ Event
  /\ blocks' = [blocks EXCEPT ![e] = @ \union {"PROVIDER"}]
  /\ Leaves(e, "SUPPRESSED")
  /\ confirmLink' = confirmLink \ {e} /\ asked' = asked \ {e}
  /\ UNCHANGED <<ahead, stopLink, offered, memberVars, settingVars>>

\* The staff clear what the provider reported, and nothing else.
ClearBlock(e) ==
  /\ Event
  /\ "PROVIDER" \in blocks[e]
  /\ blocks' = [blocks EXCEPT ![e] = @ \ {"PROVIDER"}]
  /\ UNCHANGED <<waitlistVars, memberVars, settingVars, invites>>

ChangePolicy ==
  /\ Event
  /\ \E p \in Policies \ {policy} : policy' = p
  /\ UNCHANGED <<waitlistVars, memberVars, schedule, invites, blocks>>

-----------------------------------------------------------------------------
OnTheList(e) == Request(e) \/ Confirm(e) \/ ForgetUnconfirmed(e)
OfMembers(e) ==
  \/ \E r \in Recipients : MemberInvites(e, r) \/ Redeem(e, r)
  \/ Suspend(e) \/ Restore(e) \/ DeleteAccount(e)
Stopping(e) == RequestStopLink(e) \/ Stop(e) \/ ProviderEvent(e) \/ ClearBlock(e)

AdmissionNext ==
  \/ \E e \in People : OnTheList(e) \/ OfMembers(e) \/ Stopping(e)
  \/ \E selection \in SUBSET People \ {{}} : InviteSelected(selection)
  \/ \E r \in Recipients : RevokeInvite(r)
  \/ RunWave \/ SlotComes
  \/ \E paused \in BOOLEAN : SetSchedule(paused)
  \/ ChangePolicy

AdmissionSpec == AdmissionInit /\ [][AdmissionNext]_admissionVars

-----------------------------------------------------------------------------
(***************************************************************************)
(* Properties.                                                             *)
(***************************************************************************)

\* One access decision per address: whatever waves, selections and members do, and in whatever
\* order entries, blocks and accounts changed before, no address or number has two open invitations.
OneOpenInvitation ==
  \A r \in Recipients : \A i, j \in OpenOf(r) : i = j

\* Nobody who opted out, bounced or complained has an invitation that could be used or mailed.
NoInvitationToTheBlocked == \A e \in People : Blocked(e) => ~Invited(e)

\* The platform's own invitations stay within both limits when they are made: everyone with an
\* account, everyone with an invitation not used yet, and the new ones together.
GrantsFitTheLimits ==
  [][Outstanding' > Outstanding
       => /\ Cardinality(account') + Outstanding' <= policy.accounts
          /\ Outstanding' <= policy.outstanding]_admissionVars

\* Asking again, confirming, pausing, being invited and losing the invitation: none of it moves anyone
\* in the line.  Only one who opted out or was blocked, and confirmed again, starts at the end.
PlaceIsKept ==
  [][\A d, e \in People :
       (/\ <<d, e>> \in ahead /\ Status(d) = "WAITING" /\ ~Blocked(d)
        /\ Status(d)' \in {"WAITING", "ACCESS_GRANTED"} /\ Status(e)' # "ABSENT")
         => <<d, e>> \in ahead']_admissionVars

\* An old link undoes nothing: who stopped, or was blocked, is back on the list only by a link asked
\* for since; who came back is taken off only by a stop link given out since.
StaleLinksDoNothing ==
  [][\A e \in People :
       /\ (Status(e) \in {"WITHDRAWN", "SUPPRESSED"} /\ Status(e)' = "WAITING") => e \in asked
       /\ (Status(e) = "WAITING" /\ Status(e)' = "WITHDRAWN" /\ ~Blocked(e)) => e \in offered]_admissionVars

\* A wave can take all it would take.
RoomForAWave ==
  /\ ~schedule.paused /\ ~policy.grantsPaused
  /\ LET n == Least(Cardinality(Eligible), 2 * Half)
     IN  n > 0 =>
           /\ Cardinality(account) + Outstanding + n <= policy.accounts
           /\ Outstanding + n <= policy.outstanding

\* As docs/ADMISSION_CONTROLS.md has it: committed are the accounts and every invitation not used yet,
\* and a new one must fit both limits.
Committed == Cardinality(account) + Cardinality({k \in Recipients \X (1..MaxInvites) : k[2] \in OpenOf(k[1])})
NewGrantsFitTheLimits ==
  [][Committed' > Committed => Committed' <= policy.accounts]_admissionVars

=============================================================================
