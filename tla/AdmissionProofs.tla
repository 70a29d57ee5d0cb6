--------------------------- MODULE AdmissionProofs ---------------------------
(***************************************************************************)
(* What holds of the waitlist and the invitations for any people, limits   *)
(* and numbers of events: nobody has two open invitations, nobody who is   *)
(* blocked has one, nobody loses their place in the line, a link that was  *)
(* overtaken does nothing, and what is granted fits the limits.            *)
(***************************************************************************)
EXTENDS Admission, FiniteSetTheorems, SequenceTheorems, TLAPS

-----------------------------------------------------------------------------
(***************************************************************************)
(* The inductive invariant.  The two parts about links are what the two    *)
(* parts of StaleLinksDoNothing rest on: whoever has a link that works has *)
(* been given it since the last step that made such links worthless.       *)
(***************************************************************************)
LinksAreFresh == confirmLink \subseteq asked /\ stopLink \subseteq offered

AdmissionInv ==
  AdmissionTypeOK /\ OneOpenInvitation /\ NoInvitationToTheBlocked /\ LinksAreFresh

\* The types but for the invitations.
OtherTypes ==
  /\ entry \in [People -> Entry]
  /\ ahead \subseteq People \X People
  /\ account \subseteq People /\ suspended \subseteq account
  /\ issued \in [People -> 0..Allowance]
  /\ blocks \in [People -> SUBSET {"OPTOUT", "PROVIDER"}]
  /\ confirmLink \subseteq People /\ stopLink \subseteq People
  /\ policy \in Policies
  /\ schedule \in [paused : BOOLEAN, due : BOOLEAN]
  /\ asked \subseteq People /\ offered \subseteq People
  /\ events \in 0..MaxEvents

\* What a step may do to the invitations of one recipient: close some, or add one.
Closed(old, new) ==
  /\ new \in Seq(Invite)
  /\ Len(new) = Len(old)
  /\ \A i \in 1..Len(old) : new[i].state = "open" => new[i] = old[i]

Added(old, new) ==
  /\ new \in Seq(Invite)
  /\ Len(new) = Len(old) + 1
  /\ \A i \in 1..Len(old) : new[i] = old[i]

\* The shape of every step: an invitation is added only where none is open, to an address that nothing
\* blocks then, and an address is blocked only if nothing is left open to it.
InvitesWell ==
  /\ invites' \in [Recipients -> Seq(Invite)]
  /\ \A r \in Recipients :
       \/ Closed(invites[r], invites'[r])
       \/ /\ Added(invites[r], invites'[r]) /\ ~Invited(r)
          /\ r \in People => blocks'[r] = {}
  /\ \A e \in People : blocks'[e] # {} => blocks[e] # {} \/ ~(Invited(e)')

InvitesStay == UNCHANGED invites /\ \A e \in People : blocks'[e] # {} => blocks[e] # {}

-----------------------------------------------------------------------------
LEMMA OpenIndices ==
  ASSUME invites \in [Recipients -> Seq(Invite)], NEW r \in Recipients
  PROVE  /\ invites[r] \in Seq(Invite) /\ DOMAIN invites[r] = 1..Len(invites[r])
         /\ Len(invites[r]) \in Nat
         /\ \A i : i \in OpenOf(r) <=> i \in 1..Len(invites[r]) /\ invites[r][i].state = "open"
BY DEF OpenOf

LEMMA OpenIndicesAfter ==
  ASSUME invites' \in [Recipients -> Seq(Invite)], NEW r \in Recipients
  PROVE  /\ invites'[r] \in Seq(Invite) /\ DOMAIN invites'[r] = 1..Len(invites'[r])
         /\ Len(invites'[r]) \in Nat
         /\ \A i : i \in OpenOf(r)' <=> i \in 1..Len(invites'[r]) /\ invites'[r][i].state = "open"
BY DEF OpenOf

\* Taking back what is open closes, whoever made it.
LEMMA RevokingCloses ==
  ASSUME NEW r \in Recipients, NEW X, invites \in [Recipients -> Seq(Invite)]
  PROVE  Closed(invites[r], Revoked(r, X))
<1> DEFINE s == invites[r]
           t == Revoked(r, X)
<1>1. s \in Seq(Invite) /\ DOMAIN s = 1..Len(s) /\ Len(s) \in Nat
  BY OpenIndices
<1>2. \A i \in 1..Len(s) : s[i] \in Invite
  BY <1>1
<1>3. \A i \in 1..Len(s) : [s[i] EXCEPT !.state = "revoked"] \in Invite
  BY <1>2 DEF Invite
<1>4. t = [i \in 1..Len(s) |-> IF s[i].state = "open" /\ s[i].by \in X
                              THEN [s[i] EXCEPT !.state = "revoked"] ELSE s[i]]
  BY <1>1 DEF Revoked
<1>5. t \in [1..Len(s) -> Invite]
  BY <1>2, <1>3, <1>4
<1>6. t \in Seq(Invite) /\ Len(t) = Len(s)
  BY <1>1, <1>5
<1>7. \A i \in 1..Len(s) : t[i].state = "open" => t[i] = s[i]
  BY <1>2, <1>4 DEF Invite
<1> QED BY <1>6, <1>7 DEF Closed

LEMMA AppendingAdds ==
  ASSUME NEW r \in Recipients, NEW m \in Anyone, invites \in [Recipients -> Seq(Invite)]
  PROVE  Added(invites[r], WithNew(r, m))
<1>1. [by |-> m, state |-> "open"] \in Invite
  BY DEF Invite, Anyone
<1> QED BY <1>1, OpenIndices DEF Added, WithNew

\* One invitation of r gets a state that is not open.
LEMMA EndingCloses ==
  ASSUME NEW r \in Recipients, NEW i \in OpenOf(r), NEW c \in {"accepted", "revoked", "deleted"},
         invites \in [Recipients -> Seq(Invite)],
         invites' = [invites EXCEPT ![r][i].state = c]
  PROVE  /\ invites' \in [Recipients -> Seq(Invite)]
         /\ \A q \in Recipients : Closed(invites[q], invites'[q])
<1> DEFINE s == invites[r]
           v == [s[i] EXCEPT !.state = c]
           t == [s EXCEPT ![i] = v]
<1>1. /\ s \in Seq(Invite) /\ DOMAIN s = 1..Len(s) /\ Len(s) \in Nat /\ i \in 1..Len(s)
  BY OpenIndices
<1>2. s[i] \in Invite
  BY <1>1
<1>3. v \in Invite /\ v.state = c
  BY <1>2 DEF Invite
<1>4. invites' = [invites EXCEPT ![r] = t]
  OBVIOUS
<1> HIDE DEF v
<1>5. t \in Seq(Invite) /\ Len(t) = Len(s) /\ \A j \in 1..Len(s) : t[j] = IF j = i THEN v ELSE s[j]
  BY <1>1, <1>3, ExceptSeq
<1>6. Closed(s, t)
  BY <1>1, <1>3, <1>5 DEF Closed
<1> HIDE DEF t
<1>7. \A q \in Recipients : Closed(invites[q], invites[q])
  BY DEF Closed
<1> QED BY <1>4, <1>5, <1>6, <1>7

LEMMA StayingIsWell ==
  ASSUME AdmissionTypeOK, InvitesStay PROVE InvitesWell
BY DEF AdmissionTypeOK, InvitesStay, InvitesWell, Closed

\* A step of that shape keeps both properties of the invitations.
LEMMA WellInvitedKeeps ==
  ASSUME AdmissionInv, InvitesWell
  PROVE  OneOpenInvitation' /\ NoInvitationToTheBlocked'
<1>1. \A r \in Recipients : Closed(invites[r], invites'[r]) => OpenOf(r)' \subseteq OpenOf(r)
  <2> SUFFICES ASSUME NEW r \in Recipients, Closed(invites[r], invites'[r]), NEW i \in OpenOf(r)'
               PROVE  i \in OpenOf(r)
    OBVIOUS
  <2>1. i \in 1..Len(invites'[r]) /\ invites'[r][i].state = "open"
    BY OpenIndicesAfter DEF InvitesWell
  <2>2. i \in 1..Len(invites[r]) /\ invites[r][i].state = "open"
    BY <2>1 DEF Closed
  <2> QED BY <2>2, OpenIndices DEF AdmissionInv, AdmissionTypeOK
<1>2. \A r \in Recipients : Added(invites[r], invites'[r]) /\ ~Invited(r)
                              => OpenOf(r)' \subseteq {Len(invites[r]) + 1}
  <2> SUFFICES ASSUME NEW r \in Recipients, Added(invites[r], invites'[r]), ~Invited(r),
                      NEW i \in OpenOf(r)'
               PROVE  i = Len(invites[r]) + 1
    OBVIOUS
  <2>1. invites[r] \in Seq(Invite) /\ Len(invites[r]) \in Nat
    BY OpenIndices DEF AdmissionInv, AdmissionTypeOK
  <2>2. i \in 1..Len(invites[r]) + 1 /\ invites'[r][i].state = "open"
    BY <2>1, OpenIndicesAfter DEF Added, InvitesWell
  <2>3. i \notin 1..Len(invites[r])
    BY <2>1, <2>2, OpenIndices DEF Added, Invited, AdmissionInv, AdmissionTypeOK
  <2> QED BY <2>1, <2>2, <2>3
<1>3. OneOpenInvitation'
  BY <1>1, <1>2 DEF AdmissionInv, OneOpenInvitation, InvitesWell
<1>4. NoInvitationToTheBlocked'
  BY <1>1 DEF AdmissionInv, NoInvitationToTheBlocked, InvitesWell, Blocked, Invited, Recipients
<1> QED BY <1>3, <1>4

-----------------------------------------------------------------------------
(***************************************************************************)
(* Every step has that shape, and keeps the other types and the links.     *)
(***************************************************************************)
Kept == InvitesWell /\ OtherTypes' /\ LinksAreFresh'

LEMMA Counting == ASSUME AdmissionTypeOK, Event PROVE events' \in 0..MaxEvents
BY AdmissionAssumption DEF AdmissionTypeOK, Event

\* What a step writes to one entry is an entry.
LEMMA EntryTypes ==
  ASSUME AdmissionTypeOK, NEW e \in People
  PROVE  /\ Absent \in Entry
         /\ \A b \in BOOLEAN : [status |-> "WAITING", verified |-> b] \in Entry
         /\ \A b \in BOOLEAN : [entry[e] EXCEPT !.verified = b] \in Entry
         /\ \A x \in {"ABSENT", "WAITING", "ACCESS_GRANTED", "JOINED", "WITHDRAWN", "SUPPRESSED"} :
              [entry[e] EXCEPT !.status = x] \in Entry
         /\ Status(e) \in {"ABSENT", "WAITING", "ACCESS_GRANTED", "JOINED", "WITHDRAWN", "SUPPRESSED"}
         /\ entry[e].verified \in BOOLEAN
BY DEF AdmissionTypeOK, Entry, Absent, Status

LEMMA ReplacingAnEntry ==
  ASSUME AdmissionTypeOK, NEW e \in People, NEW v \in Entry, entry' = [entry EXCEPT ![e] = v]
  PROVE  entry' \in [People -> Entry]
BY DEF AdmissionTypeOK

LEMMA LineTypes ==
  ASSUME AdmissionTypeOK, NEW e \in People, ToTheEnd(e) \/ OutOfLine(e) \/ UNCHANGED ahead
  PROVE  ahead' \subseteq People \X People
BY DEF AdmissionTypeOK, ToTheEnd, OutOfLine, Others

LEMMA RequestKeeps ==
  ASSUME AdmissionInv, NEW e \in People, Request(e) PROVE Kept
<1> DEFINE v == [status |-> "WAITING", verified |-> FALSE]
<1>1. AdmissionTypeOK /\ v \in Entry
  BY EntryTypes DEF AdmissionInv
<1> HIDE DEF v
<1>2. entry' = [entry EXCEPT ![e] = v] \/ UNCHANGED entry
  BY DEF Request, v
<1>3. entry' \in [People -> Entry]
  BY <1>1, <1>2, ReplacingAnEntry DEF AdmissionTypeOK
<1>4. ahead' \subseteq People \X People
  BY <1>1, LineTypes DEF Request
<1>5. OtherTypes'
  BY <1>1, <1>3, <1>4, Counting
     DEF OtherTypes, Request, AdmissionTypeOK, memberVars, settingVars
<1>6. LinksAreFresh'
  BY DEF Request, LinksAreFresh, AdmissionInv
<1>7. InvitesWell
  BY <1>1, StayingIsWell DEF Request, InvitesStay
<1> QED BY <1>5, <1>6, <1>7 DEF Kept

LEMMA ConfirmKeeps ==
  ASSUME AdmissionInv, NEW e \in People, Confirm(e) PROVE Kept
<1> DEFINE v == [status |-> "WAITING", verified |-> TRUE]
           b == entry[e].verified \/ Status(e) = "WAITING"
           u == [entry[e] EXCEPT !.verified = b]
<1>1. AdmissionTypeOK /\ v \in Entry /\ u \in Entry
  <2>1. b \in BOOLEAN
    OBVIOUS
  <2> HIDE DEF b
  <2> QED BY <2>1, EntryTypes DEF AdmissionInv
<1>2. entry' = [entry EXCEPT ![e] = v] \/ entry' = [entry EXCEPT ![e] = u] \/ UNCHANGED entry
  BY <1>1 DEF Confirm, AdmissionTypeOK
<1> HIDE DEF v, u
<1>3. entry' \in [People -> Entry]
  BY <1>1, <1>2, ReplacingAnEntry DEF AdmissionTypeOK
<1>4. ahead' \subseteq People \X People
  BY <1>1, LineTypes DEF Confirm
<1>5. UNCHANGED blocks \/ blocks' = [blocks EXCEPT ![e] = {}]
  BY DEF Confirm
<1>6. /\ confirmLink' = confirmLink \ {e} /\ UNCHANGED <<asked, memberVars, settingVars, invites>>
      /\ \/ UNCHANGED <<stopLink, offered>>
         \/ stopLink' = stopLink \ {e} /\ offered' = offered \ {e}
  BY DEF Confirm
<1>7. OtherTypes'
  BY <1>1, <1>3, <1>4, <1>5, <1>6, Counting
     DEF OtherTypes, Confirm, AdmissionTypeOK, memberVars, settingVars
<1>8. LinksAreFresh'
  BY <1>6 DEF LinksAreFresh, AdmissionInv
<1>9. InvitesWell
  BY <1>1, <1>5, <1>6, StayingIsWell DEF InvitesStay, AdmissionTypeOK
<1> QED BY <1>7, <1>8, <1>9 DEF Kept

LEMMA ForgetKeeps ==
  ASSUME AdmissionInv, NEW e \in People, ForgetUnconfirmed(e) PROVE Kept
<1>1. AdmissionTypeOK /\ Absent \in Entry
  BY EntryTypes DEF AdmissionInv
<1>2. entry' \in [People -> Entry] /\ ahead' \subseteq People \X People
  BY <1>1, ReplacingAnEntry, LineTypes DEF ForgetUnconfirmed
<1>3. OtherTypes'
  BY <1>1, <1>2, Counting
     DEF OtherTypes, ForgetUnconfirmed, AdmissionTypeOK, memberVars, settingVars
<1>4. LinksAreFresh'
  BY DEF ForgetUnconfirmed, LinksAreFresh, AdmissionInv
<1>5. InvitesWell
  BY <1>1, StayingIsWell DEF ForgetUnconfirmed, InvitesStay
<1> QED BY <1>3, <1>4, <1>5 DEF Kept

\* Whoever is eligible is not blocked and has no invitation, reconciled or not.
LEMMA EligibleMayBeInvited ==
  ASSUME AdmissionTypeOK, NEW e \in Eligible
  PROVE  e \in People /\ Status(e) = "WAITING" /\ ~Invited(e) /\ blocks[e] = {} /\ e \notin account
BY DEF Eligible, StatusNow, Blocked

LEMMA StatusNowType ==
  ASSUME AdmissionTypeOK, NEW e \in People
  PROVE  [entry[e] EXCEPT !.status = StatusNow(e)] \in Entry
<1>1. StatusNow(e) \in {"ABSENT", "WAITING", "ACCESS_GRANTED", "JOINED", "WITHDRAWN", "SUPPRESSED"}
  BY EntryTypes DEF StatusNow
<1> QED BY <1>1, EntryTypes

LEMMA GrantKeeps ==
  ASSUME AdmissionInv, NEW chosen \in SUBSET Eligible, Grant(chosen),
         UNCHANGED <<ahead, confirmLink, asked, memberVars, policy, blocks>>,
         schedule' \in [paused : BOOLEAN, due : BOOLEAN], events' \in 0..MaxEvents
  PROVE  Kept
<1>1. AdmissionTypeOK /\ chosen \subseteq People
  BY EligibleMayBeInvited DEF AdmissionInv
<1>2. entry' \in [People -> Entry]
  <2>1. \A e \in People : [entry[e] EXCEPT !.status = IF e \in chosen THEN "ACCESS_GRANTED"
                                                     ELSE StatusNow(e)] \in Entry
    BY <1>1, EntryTypes, StatusNowType
  <2> QED BY <2>1 DEF Grant
<1>3. OtherTypes'
  BY <1>1, <1>2 DEF OtherTypes, Grant, AdmissionTypeOK, memberVars
<1>4. LinksAreFresh'
  BY DEF Grant, LinksAreFresh, AdmissionInv
<1>5. \A r \in chosen : Added(invites[r], WithNew(r, Platform)) /\ ~Invited(r) /\ blocks'[r] = {}
  BY <1>1, AppendingAdds, EligibleMayBeInvited DEF Anyone, Recipients, AdmissionTypeOK
<1>6. \A r \in Recipients \ chosen : Closed(invites[r], invites[r])
  BY <1>1 DEF AdmissionTypeOK, Closed
<1>7. \A r \in Recipients : invites'[r] = IF r \in chosen THEN WithNew(r, Platform) ELSE invites[r]
  BY DEF Grant
<1>8. invites' \in [Recipients -> Seq(Invite)]
  <2>1. \A r \in Recipients : (IF r \in chosen THEN WithNew(r, Platform) ELSE invites[r]) \in Seq(Invite)
    BY <1>1, <1>5 DEF Added, AdmissionTypeOK
  <2> QED BY <2>1 DEF Grant
<1>9. InvitesWell
  BY <1>5, <1>6, <1>7, <1>8 DEF InvitesWell
<1> QED BY <1>3, <1>4, <1>9 DEF Kept

LEMMA InviteSelectedKeeps ==
  ASSUME AdmissionInv, NEW selection \in SUBSET People, InviteSelected(selection) PROVE Kept
<1>1. /\ Grant(selection \cap Eligible) /\ Event
      /\ UNCHANGED <<ahead, confirmLink, asked, memberVars, policy, schedule, blocks>>
  BY DEF InviteSelected, settingVars
<1> QED BY <1>1, GrantKeeps, Counting DEF AdmissionInv, AdmissionTypeOK

LEMMA RunWaveKeeps == ASSUME AdmissionInv, RunWave PROVE Kept
<1>1. UNCHANGED <<ahead, confirmLink, asked, memberVars, policy, blocks, events>>
  BY DEF RunWave
<1>2. AdmissionTypeOK /\ schedule' \in [paused : BOOLEAN, due : BOOLEAN]
  BY DEF RunWave, AdmissionInv, AdmissionTypeOK
<1>3. CASE \E chosen \in SUBSET Eligible : Grant(chosen)
  BY <1>1, <1>2, <1>3, GrantKeeps DEF AdmissionTypeOK
<1>4. CASE entry' = Reconciled /\ UNCHANGED <<invites, stopLink, offered, schedule>>
  <2>1. entry' \in [People -> Entry]
    BY <1>2, <1>4, StatusNowType DEF Reconciled
  <2>2. OtherTypes' /\ LinksAreFresh'
    BY <1>1, <1>2, <1>4, <2>1 DEF OtherTypes, LinksAreFresh, AdmissionTypeOK, AdmissionInv, memberVars
  <2>3. InvitesWell
    BY <1>1, <1>2, <1>4, StayingIsWell DEF InvitesStay
  <2> QED BY <2>2, <2>3 DEF Kept
<1> QED BY <1>3, <1>4 DEF RunWave

LEMMA MemberInvitesKeeps ==
  ASSUME AdmissionInv, NEW m \in People, NEW r \in Recipients, MemberInvites(m, r) PROVE Kept
<1>1. AdmissionTypeOK
  BY DEF AdmissionInv
<1>2. entry' \in [People -> Entry]
  <2>1. \A e \in People : [entry[e] EXCEPT !.status = "ACCESS_GRANTED"] \in Entry /\ entry[e] \in Entry
    BY <1>1, EntryTypes DEF AdmissionTypeOK
  <2>2. \A e \in People : (IF e = r /\ Status(e) = "WAITING"
                          THEN [entry[e] EXCEPT !.status = "ACCESS_GRANTED"] ELSE entry[e]) \in Entry
    BY <2>1
  <2>3. entry' = [e \in People |-> IF e = r /\ Status(e) = "WAITING"
                          THEN [entry[e] EXCEPT !.status = "ACCESS_GRANTED"] ELSE entry[e]]
    BY DEF MemberInvites
  <2> QED BY <2>2, <2>3
<1>3. issued' \in [People -> 0..Allowance]
  BY <1>1, AdmissionAssumption DEF AdmissionTypeOK, MemberInvites, HasAllowance
<1>4. UNCHANGED <<ahead, confirmLink, stopLink, asked, offered, account, suspended, policy, schedule, blocks>>
  BY DEF MemberInvites, settingVars
<1>5. OtherTypes' /\ LinksAreFresh'
  BY <1>1, <1>2, <1>3, <1>4, Counting
     DEF OtherTypes, LinksAreFresh, AdmissionTypeOK, AdmissionInv, MemberInvites
<1>6. /\ ~Invited(r)
      /\ r \in People => blocks'[r] = {}
      /\ invites' = [invites EXCEPT ![r] = WithNew(r, m)]
  BY <1>4 DEF MemberInvites, MayBeInvited, Blocked
<1>7. Added(invites[r], WithNew(r, m))
  BY <1>1, AppendingAdds DEF Anyone, AdmissionTypeOK
<1>8. \A q \in Recipients : Closed(invites[q], invites[q])
  BY <1>1 DEF AdmissionTypeOK, Closed
<1>9. InvitesWell
  BY <1>1, <1>4, <1>6, <1>7, <1>8 DEF InvitesWell, AdmissionTypeOK, Added
<1> QED BY <1>5, <1>9 DEF Kept

LEMMA RedeemKeeps ==
  ASSUME AdmissionInv, NEW e \in People, NEW r \in Recipients, Redeem(e, r) PROVE Kept
<1> DEFINE x == IF entry[e].status \in {"ABSENT", "WITHDRAWN"} THEN entry[e].status ELSE "JOINED"
           v == [entry[e] EXCEPT !.status = x]
<1>1. AdmissionTypeOK /\ v \in Entry
  BY EntryTypes DEF AdmissionInv, Status
<1>2. entry' = [entry EXCEPT ![e] = v]
  BY DEF Redeem
<1> HIDE DEF v
<1>3. entry' \in [People -> Entry]
  BY <1>1, <1>2, ReplacingAnEntry
<1>4. /\ UNCHANGED <<ahead, confirmLink, stopLink, asked, offered, suspended, issued, policy, schedule, blocks>>
      /\ account' = account \union {e}
  BY DEF Redeem, settingVars
<1>5. OtherTypes' /\ LinksAreFresh'
  BY <1>1, <1>3, <1>4, Counting
     DEF OtherTypes, LinksAreFresh, AdmissionTypeOK, AdmissionInv, Redeem
<1>6. PICK i \in OpenOf(r) : invites' = [invites EXCEPT ![r][i].state = "accepted"]
  BY DEF Redeem
<1>7. InvitesWell
  BY <1>1, <1>4, <1>6, EndingCloses DEF InvitesWell, AdmissionTypeOK
<1> QED BY <1>5, <1>7 DEF Kept

LEMMA RevokeInviteKeeps ==
  ASSUME AdmissionInv, NEW r \in Recipients, RevokeInvite(r) PROVE Kept
<1>1. AdmissionTypeOK /\ UNCHANGED <<waitlistVars, memberVars, settingVars, blocks>>
  BY DEF AdmissionInv, RevokeInvite
<1>2. PICK i \in OpenOf(r) : invites' = [invites EXCEPT ![r][i].state = "revoked"]
  BY DEF RevokeInvite
<1>3. InvitesWell
  BY <1>1, <1>2, EndingCloses DEF InvitesWell, AdmissionTypeOK
<1>4. OtherTypes' /\ LinksAreFresh'
  BY <1>1, Counting DEF OtherTypes, LinksAreFresh, AdmissionTypeOK, AdmissionInv, RevokeInvite,
                        waitlistVars, memberVars, settingVars
<1> QED BY <1>3, <1>4 DEF Kept

LEMMA SuspendKeeps == ASSUME AdmissionInv, NEW m \in People, Suspend(m) PROVE Kept
<1>1. AdmissionTypeOK /\ UNCHANGED <<waitlistVars, account, issued, settingVars, blocks>>
  BY DEF AdmissionInv, Suspend
<1>2. \A r \in Recipients : Closed(invites[r], Revoked(r, {m}))
  BY <1>1, RevokingCloses DEF AdmissionTypeOK
<1>3. invites' = [r \in Recipients |-> Revoked(r, {m})]
  BY DEF Suspend
<1>4. InvitesWell
  BY <1>1, <1>2, <1>3 DEF InvitesWell, Closed
<1>5. OtherTypes' /\ LinksAreFresh'
  BY <1>1, Counting DEF OtherTypes, LinksAreFresh, AdmissionTypeOK, AdmissionInv, Suspend,
                        waitlistVars, settingVars
<1> QED BY <1>4, <1>5 DEF Kept

LEMMA DeleteAccountKeeps == ASSUME AdmissionInv, NEW m \in People, DeleteAccount(m) PROVE Kept
<1>1. AdmissionTypeOK /\ Absent \in Entry
  BY EntryTypes DEF AdmissionInv
<1>2. entry' \in [People -> Entry] /\ ahead' \subseteq People \X People
  BY <1>1, ReplacingAnEntry, LineTypes DEF DeleteAccount
<1>3. /\ account' = account \ {m} /\ suspended' = suspended \ {m}
      /\ issued' = [issued EXCEPT ![m] = 0]
      /\ confirmLink' = confirmLink \ {m} /\ stopLink' = stopLink \ {m}
      /\ UNCHANGED <<asked, offered, policy, schedule, blocks>>
  BY DEF DeleteAccount, settingVars
<1>4. OtherTypes' /\ LinksAreFresh'
  <2>1. OtherTypes /\ LinksAreFresh
    BY <1>1 DEF OtherTypes, AdmissionTypeOK, AdmissionInv
  <2>2. issued' \in [People -> 0..Allowance]
    BY <1>3, <2>1, AdmissionAssumption DEF OtherTypes
  <2>3. events' \in 0..MaxEvents
    BY <1>1, Counting DEF DeleteAccount
  <2> QED
    BY <1>2, <1>3, <2>1, <2>2, <2>3 DEF OtherTypes, LinksAreFresh
<1>5. ASSUME NEW r \in Recipients PROVE Closed(invites[r], invites'[r])
  <2> DEFINE s == invites[r]
             t == invites'[r]
  <2>1. s \in Seq(Invite) /\ DOMAIN s = 1..Len(s) /\ Len(s) \in Nat
    BY <1>1, OpenIndices DEF AdmissionTypeOK
  <2>2. t = [i \in 1..Len(s) |-> IF s[i].by = m THEN [s[i] EXCEPT !.state = "deleted"] ELSE s[i]]
    BY <2>1 DEF DeleteAccount
  <2>3. \A i \in 1..Len(s) : s[i] \in Invite
    BY <2>1
  <2>4. \A i \in 1..Len(s) : [s[i] EXCEPT !.state = "deleted"] \in Invite
    BY <2>3 DEF Invite
  <2>5. t \in [1..Len(s) -> Invite]
    BY <2>2, <2>3, <2>4
  <2>6. t \in Seq(Invite) /\ Len(t) = Len(s)
    BY <2>1, <2>5
  <2>7. \A i \in 1..Len(s) : t[i].state = "open" => t[i] = s[i]
    BY <2>2, <2>3 DEF Invite
  <2> QED BY <2>6, <2>7 DEF Closed
<1>6. InvitesWell
  <2>1. \A r \in Recipients : invites'[r] \in Seq(Invite)
    BY <1>5 DEF Closed
  <2>2. invites' \in [Recipients -> Seq(Invite)]
    BY <2>1 DEF DeleteAccount
  <2> QED BY <1>3, <1>5, <2>2 DEF InvitesWell
<1> QED BY <1>4, <1>6 DEF Kept

\* Who stops or is blocked has nothing open left, and no link that confirms.
LEMMA LeavingKeeps ==
  ASSUME AdmissionInv, NEW e \in People, NEW status \in {"WITHDRAWN", "SUPPRESSED"},
         NEW why \in {"OPTOUT", "PROVIDER"},
         Leaves(e, status), Event,
         blocks' = [blocks EXCEPT ![e] = @ \union {why}],
         confirmLink' = confirmLink \ {e}, asked' = asked \ {e},
         stopLink' \subseteq stopLink,
         UNCHANGED <<ahead, offered, memberVars, settingVars>>
  PROVE  Kept
<1> DEFINE x == IF entry[e].status \in {"WAITING", "ACCESS_GRANTED"} THEN status ELSE entry[e].status
           v == [entry[e] EXCEPT !.status = x]
           gone == Revoked(e, Anyone)
<1>1. AdmissionTypeOK /\ v \in Entry
  BY EntryTypes DEF AdmissionInv, Status
<1>2. entry' = [entry EXCEPT ![e] = v] /\ invites' = [invites EXCEPT ![e] = gone]
  BY DEF Leaves
<1> HIDE DEF v
<1>3. entry' \in [People -> Entry]
  BY <1>1, <1>2, ReplacingAnEntry
<1>4. blocks' \in [People -> SUBSET {"OPTOUT", "PROVIDER"}]
  BY <1>1 DEF AdmissionTypeOK
<1>5. OtherTypes' /\ LinksAreFresh'
  BY <1>1, <1>3, <1>4, Counting
     DEF OtherTypes, LinksAreFresh, AdmissionTypeOK, AdmissionInv, memberVars, settingVars
<1>6. Closed(invites[e], gone) /\ e \in Recipients
  BY <1>1, RevokingCloses DEF AdmissionTypeOK, Recipients
<1>7. \A i \in 1..Len(invites[e]) : gone[i].state # "open"
  <2>1. /\ invites[e] \in Seq(Invite) /\ DOMAIN invites[e] = 1..Len(invites[e])
        /\ \A i \in 1..Len(invites[e]) : invites[e][i] \in Invite
    BY <1>1, <1>6, OpenIndices DEF AdmissionTypeOK
  <2> QED BY <2>1 DEF Revoked, Invite, Anyone
<1> HIDE DEF gone
<1>8. \A q \in Recipients : Closed(invites[q], invites[q])
  BY <1>1 DEF AdmissionTypeOK, Closed
<1>9. invites' \in [Recipients -> Seq(Invite)] /\ \A q \in Recipients : Closed(invites[q], invites'[q])
  BY <1>1, <1>2, <1>6, <1>8 DEF AdmissionTypeOK, Closed
<1>10. ~(Invited(e)')
  <2>1. invites'[e] = gone
    BY <1>1, <1>2, <1>6 DEF AdmissionTypeOK
  <2>2. Len(gone) = Len(invites[e])
    BY <1>6 DEF Closed
  <2>3. \A i : i \notin OpenOf(e)'
    BY <1>6, <1>7, <1>9, <2>1, <2>2, OpenIndicesAfter
  <2> QED BY <2>3 DEF Invited
<1>11. \A d \in People : blocks'[d] # {} => blocks[d] # {} \/ ~(Invited(d)')
  BY <1>1, <1>10 DEF AdmissionTypeOK
<1> QED BY <1>5, <1>9, <1>11 DEF Kept, InvitesWell

LEMMA StoppingKeeps == ASSUME AdmissionInv, NEW e \in People, Stopping(e) PROVE Kept
<1>1. AdmissionTypeOK
  BY DEF AdmissionInv
<1>2. CASE RequestStopLink(e)
  <2>1. OtherTypes' /\ LinksAreFresh'
    BY <1>1, <1>2, Counting
       DEF OtherTypes, LinksAreFresh, AdmissionTypeOK, AdmissionInv, RequestStopLink, memberVars, settingVars
  <2> QED BY <1>1, <1>2, <2>1, StayingIsWell DEF RequestStopLink, InvitesStay, Kept
<1>3. CASE Stop(e)
  <2>1. stopLink' \subseteq stopLink
    BY <1>3 DEF Stop
  <2> QED BY <1>3, <2>1, LeavingKeeps DEF Stop
<1>4. CASE ProviderEvent(e)
  <2>1. stopLink' \subseteq stopLink
    BY <1>4 DEF ProviderEvent
  <2> QED BY <1>4, <2>1, LeavingKeeps DEF ProviderEvent
<1>5. CASE ClearBlock(e)
  <2>1. blocks' = [blocks EXCEPT ![e] = @ \ {"PROVIDER"}] /\ UNCHANGED <<waitlistVars, memberVars, settingVars, invites>>
    BY <1>5 DEF ClearBlock
  <2>2. blocks' \in [People -> SUBSET {"OPTOUT", "PROVIDER"}]
    BY <1>1, <2>1 DEF AdmissionTypeOK
  <2>3. OtherTypes' /\ LinksAreFresh'
    BY <1>1, <1>5, <2>1, <2>2, Counting
       DEF OtherTypes, LinksAreFresh, AdmissionTypeOK, AdmissionInv, ClearBlock, waitlistVars, memberVars, settingVars
  <2>4. InvitesStay
    BY <1>1, <2>1 DEF AdmissionTypeOK, InvitesStay
  <2> QED BY <1>1, <2>3, <2>4, StayingIsWell DEF Kept
<1> QED BY <1>2, <1>3, <1>4, <1>5 DEF Stopping

\* The steps that change neither the invitations nor the blocks, the entries nor the links.
LEMMA SettingsKeep ==
  ASSUME AdmissionInv,
         \/ SlotComes \/ ChangePolicy \/ (\E paused \in BOOLEAN : SetSchedule(paused))
         \/ (\E m \in People : Restore(m)) \/ UNCHANGED admissionVars
  PROVE  Kept
<1>1. AdmissionTypeOK /\ UNCHANGED <<waitlistVars, account, issued, invites, blocks>>
  BY DEF AdmissionInv, SlotComes, ChangePolicy, SetSchedule, Restore, admissionVars, memberVars
<1>2. events' \in 0..MaxEvents
  BY <1>1, Counting DEF SlotComes, ChangePolicy, SetSchedule, Restore, admissionVars, AdmissionTypeOK
<1>3. schedule' \in [paused : BOOLEAN, due : BOOLEAN]
  <2>1. schedule \in [paused : BOOLEAN, due : BOOLEAN] /\ schedule.due \in BOOLEAN
    BY <1>1 DEF AdmissionTypeOK
  <2>2. CASE UNCHANGED schedule
    BY <2>1, <2>2
  <2>3. CASE SlotComes
    BY <2>1, <2>3 DEF SlotComes
  <2>4. ASSUME NEW paused \in BOOLEAN, SetSchedule(paused)
        PROVE  schedule' \in [paused : BOOLEAN, due : BOOLEAN]
    <3>1. (paused /\ schedule.due) \in BOOLEAN
      OBVIOUS
    <3> QED BY <2>1, <2>4, <3>1 DEF SetSchedule
  <2> QED BY <2>2, <2>3, <2>4 DEF ChangePolicy, Restore, admissionVars, settingVars
<1>4. policy' \in Policies
  BY <1>1 DEF SlotComes, ChangePolicy, SetSchedule, Restore, admissionVars, AdmissionTypeOK, settingVars
<1>5. suspended' \subseteq suspended
  BY DEF SlotComes, ChangePolicy, SetSchedule, Restore, admissionVars, memberVars
<1>6. OtherTypes' /\ LinksAreFresh'
  BY <1>1, <1>2, <1>3, <1>4, <1>5 DEF OtherTypes, LinksAreFresh, AdmissionTypeOK, AdmissionInv, waitlistVars
<1>7. InvitesWell
  BY <1>1, StayingIsWell DEF InvitesStay
<1> QED BY <1>6, <1>7 DEF Kept

-----------------------------------------------------------------------------
LEMMA InitialAdmission == AdmissionInit => AdmissionInv
<1> SUFFICES ASSUME AdmissionInit PROVE AdmissionInv
  OBVIOUS
<1>1. entry \in [People -> Entry]
  <2> DEFINE v == [status |-> "WAITING", verified |-> TRUE]
  <2>1. Absent \in Entry /\ v \in Entry
    BY DEF Entry, Absent
  <2>2. entry \in [People -> {Absent, v}]
    BY DEF AdmissionInit
  <2> HIDE DEF v
  <2> QED BY <2>1, <2>2
<1>2. ahead \subseteq People \X People
  BY DEF AdmissionInit
<1>3. invites \in [Recipients -> Seq(Invite)] /\ \A r \in Recipients : OpenOf(r) = {}
  <2>1. << >> \in Seq(Invite) /\ DOMAIN << >> = {}
    OBVIOUS
  <2> HIDE DEF Invite
  <2> QED BY <2>1 DEF AdmissionInit, OpenOf
<1>4. AdmissionTypeOK
  BY <1>1, <1>2, <1>3, AdmissionAssumption DEF AdmissionInit, AdmissionTypeOK
<1> QED BY <1>3, <1>4 DEF AdmissionInit, AdmissionInv, OneOpenInvitation, NoInvitationToTheBlocked,
                           Blocked, LinksAreFresh

LEMMA StepsKeep == AdmissionInv /\ [AdmissionNext]_admissionVars => Kept
<1> SUFFICES ASSUME AdmissionInv, [AdmissionNext]_admissionVars PROVE Kept
  OBVIOUS
<1>1. ASSUME NEW e \in People, OnTheList(e) PROVE Kept
  BY <1>1, RequestKeeps, ConfirmKeeps, ForgetKeeps DEF OnTheList
<1>2. ASSUME NEW e \in People, OfMembers(e) PROVE Kept
  BY <1>2, MemberInvitesKeeps, RedeemKeeps, SuspendKeeps, DeleteAccountKeeps, SettingsKeep DEF OfMembers
<1>3. ASSUME NEW e \in People, Stopping(e) PROVE Kept
  BY <1>3, StoppingKeeps
<1>4. CASE \E selection \in SUBSET People \ {{}} : InviteSelected(selection)
  BY <1>4, InviteSelectedKeeps
<1>5. CASE \E r \in Recipients : RevokeInvite(r)
  BY <1>5, RevokeInviteKeeps
<1>6. CASE RunWave
  BY <1>6, RunWaveKeeps
<1> QED BY <1>1, <1>2, <1>3, <1>4, <1>5, <1>6, SettingsKeep DEF AdmissionNext

LEMMA KeptIsInvariant == AdmissionInv /\ Kept => AdmissionInv'
BY WellInvitedKeeps DEF Kept, OtherTypes, InvitesWell, AdmissionInv, AdmissionTypeOK

LEMMA AdmissionInvariant == AdmissionSpec => []AdmissionInv
<1>1. AdmissionInv /\ [AdmissionNext]_admissionVars => AdmissionInv'
  BY StepsKeep, KeptIsInvariant
<1> QED BY InitialAdmission, <1>1, PTL DEF AdmissionSpec

\* Type correctness, for any people, numbers, policies and bounds.
THEOREM AdmissionTypesHold == AdmissionSpec => []AdmissionTypeOK
<1>1. AdmissionInv => AdmissionTypeOK
  BY DEF AdmissionInv
<1> QED BY <1>1, AdmissionInvariant, PTL

\* Waves, selections, members and redemptions, in any order with requests, stops, bounces, suspensions
\* and deletions, never leave two open invitations to one address or number.
THEOREM AtMostOneOpenInvitation == AdmissionSpec => []OneOpenInvitation
<1>1. AdmissionInv => OneOpenInvitation
  BY DEF AdmissionInv
<1> QED BY <1>1, AdmissionInvariant, PTL

\* Whoever opted out, bounced or complained has no invitation that could be used or mailed.
THEOREM TheBlockedAreNotInvited == AdmissionSpec => []NoInvitationToTheBlocked
<1>1. AdmissionInv => NoInvitationToTheBlocked
  BY DEF AdmissionInv
<1> QED BY <1>1, AdmissionInvariant, PTL

-----------------------------------------------------------------------------
(***************************************************************************)
(* The line, and the links.  Only Request, Confirm, ForgetUnconfirmed and  *)
(* DeleteAccount move anyone.                                              *)
(***************************************************************************)
KeepsPlaces ==
  \A d, e \in People :
    (/\ <<d, e>> \in ahead /\ Status(d) = "WAITING" /\ ~Blocked(d)
     /\ Status(d)' \in {"WAITING", "ACCESS_GRANTED"} /\ Status(e)' # "ABSENT")
      => <<d, e>> \in ahead'

StaleLinksAreIgnored ==
  \A e \in People :
    /\ (Status(e) \in {"WITHDRAWN", "SUPPRESSED"} /\ Status(e)' = "WAITING") => e \in asked
    /\ (Status(e) = "WAITING" /\ Status(e)' = "WITHDRAWN" /\ ~Blocked(e)) => e \in offered

\* One who takes a new place moves nobody but themselves, and themselves to the end.
LEMMA GoingToTheEnd ==
  ASSUME NEW c \in People, ToTheEnd(c), NEW d \in People, NEW e \in People, <<d, e>> \in ahead,
         d # c, Status(d) # "ABSENT"
  PROVE  <<d, e>> \in ahead'
BY DEF ToTheEnd, Others

LEMMA LeavingTheLine ==
  ASSUME NEW c \in People, OutOfLine(c), NEW d \in People, NEW e \in People, <<d, e>> \in ahead,
         d # c, e # c
  PROVE  <<d, e>> \in ahead'
BY DEF OutOfLine, Others

LEMMA StepsKeepPlaces == AdmissionTypeOK /\ [AdmissionNext]_admissionVars => KeepsPlaces
<1> SUFFICES ASSUME AdmissionTypeOK, [AdmissionNext]_admissionVars,
                    NEW d \in People, NEW e \in People, <<d, e>> \in ahead,
                    Status(d) = "WAITING", ~Blocked(d),
                    Status(d)' \in {"WAITING", "ACCESS_GRANTED"}, Status(e)' # "ABSENT"
             PROVE  <<d, e>> \in ahead'
  BY DEF KeepsPlaces
<1>1. ASSUME NEW c \in People, Request(c) PROVE <<d, e>> \in ahead'
  BY <1>1, GoingToTheEnd DEF Request
<1>2. ASSUME NEW c \in People, Confirm(c) PROVE <<d, e>> \in ahead'
  BY <1>2, GoingToTheEnd DEF Confirm, Rejoins, Blocked
<1>3. ASSUME NEW c \in People, ForgetUnconfirmed(c) \/ DeleteAccount(c) PROVE <<d, e>> \in ahead'
  <2>1. Status(c)' = "ABSENT" /\ OutOfLine(c)
    BY <1>3 DEF ForgetUnconfirmed, DeleteAccount, Status, Absent, AdmissionTypeOK
  <2> QED BY <2>1, LeavingTheLine
<1>4. CASE UNCHANGED ahead
  BY <1>4
<1>5. ASSUME NEW c \in People, OfMembers(c), ~DeleteAccount(c) PROVE UNCHANGED ahead
  BY <1>5 DEF OfMembers, MemberInvites, Redeem, Suspend, Restore, waitlistVars
<1>6. ASSUME NEW c \in People, Stopping(c) PROVE UNCHANGED ahead
  BY <1>6 DEF Stopping, RequestStopLink, Stop, ProviderEvent, ClearBlock, waitlistVars
<1>7. ASSUME \/ \E selection \in SUBSET People \ {{}} : InviteSelected(selection)
             \/ \E r \in Recipients : RevokeInvite(r)
             \/ RunWave \/ SlotComes \/ ChangePolicy
             \/ \E paused \in BOOLEAN : SetSchedule(paused)
             \/ UNCHANGED admissionVars
      PROVE  UNCHANGED ahead
  BY <1>7 DEF InviteSelected, RevokeInvite, RunWave, SlotComes, ChangePolicy, SetSchedule,
              waitlistVars, admissionVars
<1> QED BY <1>1, <1>2, <1>3, <1>4, <1>5, <1>6, <1>7 DEF AdmissionNext, OnTheList

\* The status of everyone else stays.
LEMMA OneStatusChanges ==
  ASSUME AdmissionTypeOK, NEW c \in People, NEW v, entry' = [entry EXCEPT ![c] = v]
  PROVE  \A e \in People : Status(e)' = IF e = c THEN v.status ELSE Status(e)
BY DEF AdmissionTypeOK, Status

LEMMA StepsIgnoreStaleLinks ==
  AdmissionInv /\ [AdmissionNext]_admissionVars => StaleLinksAreIgnored
<1> SUFFICES ASSUME AdmissionInv, [AdmissionNext]_admissionVars PROVE StaleLinksAreIgnored
  OBVIOUS
<1> DEFINE Changes(e) == Status(e)' # Status(e)
           Harmless(e) == \/ Status(e)' = Status(e)
                          \/ /\ Status(e)' # "WAITING"
                             /\ Status(e)' = "WITHDRAWN" => Blocked(e)
<1>1. AdmissionTypeOK /\ \A e \in People : entry[e] \in Entry
  BY DEF AdmissionInv, AdmissionTypeOK
<1>2. ASSUME NEW e \in People, Harmless(e)
      PROVE  /\ (Status(e) \in {"WITHDRAWN", "SUPPRESSED"} /\ Status(e)' = "WAITING") => e \in asked
             /\ (Status(e) = "WAITING" /\ Status(e)' = "WITHDRAWN" /\ ~Blocked(e)) => e \in offered
  BY <1>2
<1>3. ASSUME NEW c \in People, Confirm(c) PROVE StaleLinksAreIgnored
  <2>1. c \in asked
    BY <1>3 DEF Confirm, AdmissionInv, LinksAreFresh
  <2> DEFINE v == [status |-> "WAITING", verified |-> TRUE]
             u == [entry[c] EXCEPT !.verified = @ \/ Status(c) = "WAITING"]
  <2>2. v.status = "WAITING" /\ u.status = Status(c)
    BY <1>1 DEF Status, Entry
  <2>3. entry' = [entry EXCEPT ![c] = v] \/ entry' = [entry EXCEPT ![c] = u] \/ UNCHANGED entry
    BY <1>3 DEF Confirm
  <2> HIDE DEF v, u
  <2>4. \A e \in People : Status(e)' # Status(e) => e = c /\ Status(e)' = "WAITING"
    BY <1>1, <2>2, <2>3, OneStatusChanges DEF Status
  <2> QED BY <2>1, <2>4 DEF StaleLinksAreIgnored
<1>4. ASSUME NEW c \in People, Stop(c) PROVE StaleLinksAreIgnored
  <2>1. c \in offered
    BY <1>4 DEF Stop, AdmissionInv, LinksAreFresh
  <2>2. \A e \in People : Status(e)' # Status(e) => e = c /\ Status(e)' = "WITHDRAWN"
    BY <1>1, <1>4 DEF Stop, Leaves, Status, Entry
  <2> QED BY <2>1, <2>2 DEF StaleLinksAreIgnored
<1>5. ASSUME NEW c \in People, Request(c) PROVE StaleLinksAreIgnored
  <2> DEFINE v == [status |-> "WAITING", verified |-> FALSE]
  <2>1. (Status(c) = "ABSENT" /\ entry' = [entry EXCEPT ![c] = v]) \/ UNCHANGED entry
    BY <1>5 DEF Request
  <2> HIDE DEF v
  <2>2. \A e \in People : Status(e)' # Status(e) => Status(e) = "ABSENT"
    BY <1>1, <2>1, OneStatusChanges DEF Status
  <2> QED BY <2>2 DEF StaleLinksAreIgnored
<1>6. ASSUME NEW c \in People, ForgetUnconfirmed(c) \/ DeleteAccount(c) PROVE StaleLinksAreIgnored
  <2>1. entry' = [entry EXCEPT ![c] = Absent] /\ Absent.status = "ABSENT"
    BY <1>6 DEF ForgetUnconfirmed, DeleteAccount, Absent
  <2>2. \A e \in People : Status(e)' # Status(e) => Status(e)' = "ABSENT"
    BY <1>1, <2>1, OneStatusChanges
  <2> QED BY <2>2 DEF StaleLinksAreIgnored
<1>7. ASSUME NEW c \in People, ProviderEvent(c) PROVE StaleLinksAreIgnored
  <2>1. \A e \in People : Status(e)' # Status(e) => Status(e)' = "SUPPRESSED"
    BY <1>1, <1>7 DEF ProviderEvent, Leaves, Status, Entry
  <2> QED BY <2>1 DEF StaleLinksAreIgnored
<1>8. ASSUME NEW chosen, chosen \subseteq People, Grant(chosen) PROVE StaleLinksAreIgnored
  <2>1. \A e \in People : Status(e)' = IF e \in chosen THEN "ACCESS_GRANTED" ELSE StatusNow(e)
    BY <1>1, <1>8 DEF Grant, Status, Entry
  <2> QED BY <1>2, <2>1 DEF StaleLinksAreIgnored, StatusNow
<1>9. ASSUME entry' = Reconciled PROVE StaleLinksAreIgnored
  <2>1. \A e \in People : Status(e)' = StatusNow(e)
    BY <1>1, <1>9 DEF Reconciled, Status, Entry
  <2> QED BY <1>2, <2>1 DEF StaleLinksAreIgnored, StatusNow
<1>10. ASSUME NEW m \in People, NEW r \in Recipients, MemberInvites(m, r) PROVE StaleLinksAreIgnored
  <2>1. \A e \in People : Status(e)' # Status(e) => Status(e)' = "ACCESS_GRANTED"
    BY <1>1, <1>10 DEF MemberInvites, Status, Entry
  <2> QED BY <2>1 DEF StaleLinksAreIgnored
<1>11. ASSUME NEW m \in People, NEW r \in Recipients, Redeem(m, r) PROVE StaleLinksAreIgnored
  <2>1. \A e \in People : Status(e)' # Status(e) => Status(e)' = "JOINED"
    BY <1>1, <1>11 DEF Redeem, Status, Entry
  <2> QED BY <2>1 DEF StaleLinksAreIgnored
<1>12. CASE UNCHANGED entry
  BY <1>12 DEF StaleLinksAreIgnored, Status
<1>13. ASSUME NEW e \in People, Suspend(e) \/ Restore(e) \/ RequestStopLink(e) \/ ClearBlock(e)
       PROVE  UNCHANGED entry
  BY <1>13 DEF Suspend, Restore, RequestStopLink, ClearBlock, waitlistVars
<1>14. ASSUME \/ \E r \in Recipients : RevokeInvite(r)
              \/ SlotComes \/ ChangePolicy
              \/ \E paused \in BOOLEAN : SetSchedule(paused)
              \/ UNCHANGED admissionVars
       PROVE  UNCHANGED entry
  BY <1>14 DEF RevokeInvite, SlotComes, ChangePolicy, SetSchedule, waitlistVars, admissionVars
<1>15. CASE RunWave
  <2>1. Eligible \subseteq People
    BY DEF Eligible
  <2>2. (\E chosen \in SUBSET People : Grant(chosen)) \/ entry' = Reconciled
    BY <1>15, <2>1 DEF RunWave
  <2> QED BY <1>8, <1>9, <2>2
<1>16. ASSUME NEW selection \in SUBSET People, InviteSelected(selection) PROVE StaleLinksAreIgnored
  BY <1>8, <1>16 DEF InviteSelected
<1>17. ASSUME NEW e \in People, OnTheList(e) \/ OfMembers(e) \/ Stopping(e) PROVE StaleLinksAreIgnored
  BY <1>3, <1>4, <1>5, <1>6, <1>7, <1>10, <1>11, <1>12, <1>13, <1>17 DEF OnTheList, OfMembers, Stopping
<1> QED BY <1>12, <1>14, <1>15, <1>16, <1>17 DEF AdmissionNext

\* Asking again, confirming, waves, invitations and their loss move nobody in the line.
THEOREM PlacesAreKept == AdmissionSpec => PlaceIsKept
<1>1. AdmissionInv /\ [AdmissionNext]_admissionVars => [KeepsPlaces]_admissionVars
  BY StepsKeepPlaces DEF AdmissionInv
<1>2. KeepsPlaces <=> \A d, e \in People :
       (/\ <<d, e>> \in ahead /\ Status(d) = "WAITING" /\ ~Blocked(d)
        /\ Status(d)' \in {"WAITING", "ACCESS_GRANTED"} /\ Status(e)' # "ABSENT")
         => <<d, e>> \in ahead'
  BY DEF KeepsPlaces
<1> QED BY <1>1, <1>2, AdmissionInvariant, PTL DEF AdmissionSpec, PlaceIsKept

\* Who stopped, or was blocked, is back on the list only by a link asked for since; who came back is
\* taken off only by a stop link given out since.
THEOREM StaleLinksAreHarmless == AdmissionSpec => StaleLinksDoNothing
<1>1. AdmissionInv /\ [AdmissionNext]_admissionVars => [StaleLinksAreIgnored]_admissionVars
  BY StepsIgnoreStaleLinks
<1>2. StaleLinksAreIgnored <=> \A e \in People :
       /\ (Status(e) \in {"WITHDRAWN", "SUPPRESSED"} /\ Status(e)' = "WAITING") => e \in asked
       /\ (Status(e) = "WAITING" /\ Status(e)' = "WITHDRAWN" /\ ~Blocked(e)) => e \in offered
  BY DEF StaleLinksAreIgnored
<1> QED BY <1>1, <1>2, AdmissionInvariant, PTL DEF AdmissionSpec, StaleLinksDoNothing

-----------------------------------------------------------------------------
(***************************************************************************)
(* The line is one: it puts those on the list, and nobody else, in one     *)
(* order.  The size of a wave rests on it, since the oldest requests are   *)
(* counted by how many are ahead of them.                                  *)
(***************************************************************************)
OnList == {e \in People : Status(e) # "ABSENT"}

LineIsOrdered ==
  /\ \A d, e \in People : <<d, e>> \in ahead => d \in OnList /\ e \in OnList /\ <<e, d>> \notin ahead
  /\ \A d, e \in OnList : d # e => <<d, e>> \in ahead \/ <<e, d>> \in ahead
  /\ \A c, d, e \in People : <<c, d>> \in ahead /\ <<d, e>> \in ahead => <<c, e>> \in ahead

\* The moves in the line: to its end, out of it, or none.
LineMoves ==
  \/ \E e \in People : ToTheEnd(e) /\ OnList' = OnList \union {e}
  \/ \E e \in People : OutOfLine(e) /\ OnList' = OnList \ {e}
  \/ UNCHANGED ahead /\ OnList' = OnList

LEMMA MovesKeepTheLine ==
  ASSUME LineIsOrdered, LineMoves PROVE LineIsOrdered'
<1>1. ASSUME NEW e \in People, ToTheEnd(e), OnList' = OnList \union {e} PROVE LineIsOrdered'
  <2>1. \A c, d \in People : <<c, d>> \in ahead' <=>
          \/ <<c, d>> \in ahead /\ c # e /\ d # e
          \/ c \in OnList \ {e} /\ d = e
    BY <1>1 DEF ToTheEnd, Others, OnList
  <2>2. OnList \subseteq People /\ OnList' = OnList \union {e}
    BY <1>1 DEF OnList
  <2>3. \A c, d \in People :
          <<c, d>> \in ahead' => c \in OnList' /\ d \in OnList' /\ <<d, c>> \notin ahead'
    BY <2>1, <2>2 DEF LineIsOrdered
  <2>4. \A c, d \in OnList' : c # d => <<c, d>> \in ahead' \/ <<d, c>> \in ahead'
    BY <2>1, <2>2 DEF LineIsOrdered
  <2>5. ASSUME NEW b \in People, NEW c \in People, NEW d \in People,
               <<b, c>> \in ahead', <<c, d>> \in ahead'
        PROVE  <<b, d>> \in ahead'
    <3>0. c # e
      BY <2>1, <2>5
    <3>1. <<b, c>> \in ahead /\ b # e
      BY <2>1, <2>5, <3>0
    <3>4. b \in OnList
      BY <3>1 DEF LineIsOrdered
    <3>2. CASE d = e
      BY <2>1, <3>1, <3>2, <3>4
    <3>3. CASE d # e
      BY <2>1, <2>5, <3>1, <3>3 DEF LineIsOrdered
    <3> QED
      BY <3>2, <3>3
  <2> QED BY <2>3, <2>4, <2>5 DEF LineIsOrdered
<1>2. ASSUME NEW e \in People, OutOfLine(e), OnList' = OnList \ {e} PROVE LineIsOrdered'
  <2>1. \A c, d \in People : <<c, d>> \in ahead' <=> <<c, d>> \in ahead /\ c # e /\ d # e
    BY <1>2 DEF OutOfLine, Others
  <2> QED BY <1>2, <2>1 DEF LineIsOrdered, OnList
<1>3. ASSUME UNCHANGED ahead, OnList' = OnList PROVE LineIsOrdered'
  BY <1>3 DEF LineIsOrdered
<1> QED BY <1>1, <1>2, <1>3 DEF LineMoves

\* Who writes one entry moves nobody else on or off the list.
LEMMA OneOnTheListChanges ==
  ASSUME AdmissionTypeOK, NEW c \in People, NEW v, entry' = [entry EXCEPT ![c] = v]
  PROVE  /\ v.status # "ABSENT" => OnList' = OnList \union {c}
         /\ v.status = "ABSENT" => OnList' = OnList \ {c}
BY OneStatusChanges DEF OnList

\* What reconciling and granting write leaves everyone on or off the list.
LEMMA RewritingKeepsTheList ==
  ASSUME AdmissionTypeOK, NEW x,
         entry' = [e \in People |-> [entry[e] EXCEPT !.status = x[e]]],
         \A e \in People : x[e] = "ABSENT" <=> Status(e) = "ABSENT"
  PROVE  OnList' = OnList
<1>1. \A e \in People : Status(e)' = x[e]
  BY DEF AdmissionTypeOK, Entry, Status
<1> QED BY <1>1 DEF OnList

LEMMA StepsMoveTheLine == AdmissionTypeOK /\ [AdmissionNext]_admissionVars => LineMoves
<1> SUFFICES ASSUME AdmissionTypeOK, [AdmissionNext]_admissionVars PROVE LineMoves
  OBVIOUS
<1>1. ASSUME UNCHANGED <<entry, ahead>> PROVE LineMoves
  BY <1>1 DEF LineMoves, OnList, Status
<1>2. ASSUME NEW e \in People, NEW v, entry' = [entry EXCEPT ![e] = v],
             v.status = "ABSENT" <=> Status(e) = "ABSENT", UNCHANGED ahead
      PROVE  LineMoves
  BY <1>2, OneOnTheListChanges DEF LineMoves, OnList
<1>3. ASSUME NEW e \in People, Request(e) PROVE LineMoves
  <2> DEFINE v == [status |-> "WAITING", verified |-> FALSE]
  <2>1. CASE entry' = [entry EXCEPT ![e] = v] /\ ToTheEnd(e)
    <3>1. v.status # "ABSENT"
      OBVIOUS
    <3> HIDE DEF v
    <3>2. OnList' = OnList \union {e}
      BY <2>1, <3>1, OneOnTheListChanges
    <3> QED BY <2>1, <3>2 DEF LineMoves
  <2>2. CASE UNCHANGED <<entry, ahead>>
    BY <1>1, <2>2
  <2> QED BY <1>3, <2>1, <2>2 DEF Request
<1>4. ASSUME NEW e \in People, Confirm(e) PROVE LineMoves
  <2> DEFINE v == [status |-> "WAITING", verified |-> TRUE]
             u == [entry[e] EXCEPT !.verified = @ \/ Status(e) = "WAITING"]
  <2>1. CASE entry' = [entry EXCEPT ![e] = v] /\ ToTheEnd(e)
    <3>1. v.status # "ABSENT"
      OBVIOUS
    <3> HIDE DEF v
    <3>2. OnList' = OnList \union {e}
      BY <2>1, <3>1, OneOnTheListChanges
    <3> QED BY <2>1, <3>2 DEF LineMoves
  <2>2. CASE entry' = [entry EXCEPT ![e] = u] /\ UNCHANGED ahead
    <3>1. u.status = Status(e)
      BY DEF AdmissionTypeOK, Entry, Status
    <3> QED BY <1>2, <2>2, <3>1
  <2>3. CASE UNCHANGED <<entry, ahead>>
    BY <1>1, <2>3
  <2>4. \/ entry' = [entry EXCEPT ![e] = v] /\ ToTheEnd(e)
        \/ entry' = [entry EXCEPT ![e] = u] /\ UNCHANGED ahead
        \/ UNCHANGED <<entry, ahead>>
    BY <1>4 DEF Confirm, AdmissionTypeOK, Entry
  <2> QED BY <2>1, <2>2, <2>3, <2>4
<1>5. ASSUME NEW e \in People, ForgetUnconfirmed(e) \/ DeleteAccount(e) PROVE LineMoves
  <2>1. entry' = [entry EXCEPT ![e] = Absent] /\ OutOfLine(e) /\ Absent.status = "ABSENT"
    BY <1>5 DEF ForgetUnconfirmed, DeleteAccount, Absent
  <2> QED BY <2>1, OneOnTheListChanges DEF LineMoves
<1>6. ASSUME NEW chosen \in SUBSET Eligible, Grant(chosen), UNCHANGED ahead PROVE LineMoves
  <2> DEFINE x == [e \in People |-> IF e \in chosen THEN "ACCESS_GRANTED" ELSE StatusNow(e)]
  <2>1. \A e \in People : x[e] = "ABSENT" <=> Status(e) = "ABSENT"
    BY EligibleMayBeInvited DEF StatusNow
  <2>2. entry' = [e \in People |-> [entry[e] EXCEPT !.status = x[e]]]
    BY <1>6 DEF Grant
  <2> HIDE DEF x
  <2> QED BY <1>6, <2>1, <2>2, RewritingKeepsTheList DEF LineMoves
<1>7. ASSUME entry' = Reconciled, UNCHANGED ahead PROVE LineMoves
  <2> DEFINE x == [e \in People |-> StatusNow(e)]
  <2>1. \A e \in People : x[e] = "ABSENT" <=> Status(e) = "ABSENT"
    BY DEF StatusNow
  <2>2. entry' = [e \in People |-> [entry[e] EXCEPT !.status = x[e]]]
    BY <1>7 DEF Reconciled
  <2> HIDE DEF x
  <2> QED BY <1>7, <2>1, <2>2, RewritingKeepsTheList DEF LineMoves
<1>8. ASSUME NEW selection \in SUBSET People, InviteSelected(selection) PROVE LineMoves
  BY <1>6, <1>8 DEF InviteSelected
<1>9. CASE RunWave
  <2>1. (\E chosen \in SUBSET Eligible : Grant(chosen)) \/ entry' = Reconciled
    BY <1>9 DEF RunWave
  <2> QED BY <1>6, <1>7, <1>9, <2>1 DEF RunWave
<1>10. ASSUME NEW m \in People, NEW r \in Recipients, MemberInvites(m, r) PROVE LineMoves
  <2>1. \A e \in People : Status(e)' = IF e = r /\ Status(e) = "WAITING" THEN "ACCESS_GRANTED"
                                       ELSE Status(e)
    BY <1>10 DEF MemberInvites, AdmissionTypeOK, Entry, Status
  <2>2. OnList' = OnList
    BY <2>1 DEF OnList
  <2> QED BY <1>10, <2>2 DEF MemberInvites, LineMoves
<1>11. ASSUME NEW e \in People, NEW r \in Recipients, Redeem(e, r) PROVE LineMoves
  <2> DEFINE v == [entry[e] EXCEPT !.status = IF @ \in {"ABSENT", "WITHDRAWN"} THEN @ ELSE "JOINED"]
  <2>1. entry' = [entry EXCEPT ![e] = v] /\ UNCHANGED ahead
    BY <1>11 DEF Redeem
  <2>2. v.status = "ABSENT" <=> Status(e) = "ABSENT"
    BY DEF AdmissionTypeOK, Entry, Status
  <2> HIDE DEF v
  <2> QED BY <1>2, <2>1, <2>2
<1>12. ASSUME NEW e \in People, NEW s \in {"WITHDRAWN", "SUPPRESSED"}, Leaves(e, s), UNCHANGED ahead
       PROVE  LineMoves
  <2> DEFINE v == [entry[e] EXCEPT !.status = IF @ \in {"WAITING", "ACCESS_GRANTED"} THEN s ELSE @]
  <2>1. entry' = [entry EXCEPT ![e] = v]
    BY <1>12 DEF Leaves
  <2>2. v.status = "ABSENT" <=> Status(e) = "ABSENT"
    BY DEF AdmissionTypeOK, Entry, Status
  <2> HIDE DEF v
  <2> QED BY <1>2, <1>12, <2>1, <2>2
<1>13. ASSUME NEW e \in People, Stopping(e) PROVE LineMoves
  <2>1. CASE Stop(e) \/ ProviderEvent(e)
    BY <1>12, <2>1 DEF Stop, ProviderEvent
  <2>2. CASE RequestStopLink(e) \/ ClearBlock(e)
    BY <1>1, <2>2 DEF RequestStopLink, ClearBlock, waitlistVars
  <2> QED BY <1>13, <2>1, <2>2 DEF Stopping
<1>14. ASSUME NEW e \in People, Suspend(e) \/ Restore(e) PROVE LineMoves
  BY <1>1, <1>14 DEF Suspend, Restore, waitlistVars
<1>15. ASSUME \/ \E r \in Recipients : RevokeInvite(r)
              \/ SlotComes \/ ChangePolicy
              \/ \E paused \in BOOLEAN : SetSchedule(paused)
              \/ UNCHANGED admissionVars
       PROVE  LineMoves
  BY <1>1, <1>15 DEF RevokeInvite, SlotComes, ChangePolicy, SetSchedule, waitlistVars, admissionVars
<1> QED BY <1>3, <1>4, <1>5, <1>8, <1>9, <1>10, <1>11, <1>13, <1>14, <1>15
        DEF AdmissionNext, OnTheList, OfMembers

LEMMA InitialLine == AdmissionInit => LineIsOrdered
<1> SUFFICES ASSUME AdmissionInit PROVE LineIsOrdered
  OBVIOUS
<1>1. \A e \in People : e \in OnList <=> entry[e] # Absent
  BY DEF AdmissionInit, OnList, Status, Absent
<1> QED BY <1>1 DEF AdmissionInit, LineIsOrdered, OnList

\* Those on the waitlist, and nobody else, stand in one line, whatever anyone does.
THEOREM TheLineIsOrdered == AdmissionSpec => []LineIsOrdered
<1>1. LineIsOrdered /\ AdmissionInv /\ [AdmissionNext]_admissionVars => LineIsOrdered'
  BY StepsMoveTheLine, MovesKeepTheLine DEF AdmissionInv
<1> QED BY <1>1, InitialLine, AdmissionInvariant, PTL DEF AdmissionSpec

-----------------------------------------------------------------------------
(***************************************************************************)
(* The size of a wave.                                                     *)
(***************************************************************************)
Before(S, e) == {d \in S : <<d, e>> \in ahead}
Oldest(S) == {e \in S : Cardinality(Before(S, e)) < Half}

LEMMA PeopleAreFinite ==
  ASSUME NEW S \in SUBSET People PROVE IsFiniteSet(S) /\ Cardinality(S) \in Nat
BY AdmissionAssumption, FS_Subset, FS_CardinalityType

\* In one line, whoever stands further back has more people before them.
LEMMA MoreBeforeTheLater ==
  ASSUME LineIsOrdered, NEW S \in SUBSET OnList, NEW d \in S, NEW e \in S, <<d, e>> \in ahead
  PROVE  Cardinality(Before(S, d)) < Cardinality(Before(S, e))
<1>1. S \subseteq People /\ OnList \subseteq People
  BY DEF OnList
<1>2. Before(S, d) \subseteq Before(S, e)
  BY <1>1 DEF Before, LineIsOrdered
<1>3. d \in Before(S, e) /\ d \notin Before(S, d)
  BY <1>1 DEF Before, LineIsOrdered
<1>4. Before(S, e) \in SUBSET People /\ Before(S, d) \in SUBSET People
  BY <1>1 DEF Before
<1>5. /\ IsFiniteSet(Before(S, e))
      /\ Cardinality(Before(S, d)) \in Nat /\ Cardinality(Before(S, e)) \in Nat
  BY <1>4, PeopleAreFinite
<1>6. /\ Cardinality(Before(S, d)) <= Cardinality(Before(S, e))
      /\ Cardinality(Before(S, e)) = Cardinality(Before(S, d)) => Before(S, e) = Before(S, d)
  BY <1>2, <1>5, FS_Subset
<1> QED BY <1>3, <1>5, <1>6

\* So at most Half of any group have fewer than Half of it before them.
LEMMA OldestAreHalf ==
  ASSUME LineIsOrdered, NEW S \in SUBSET OnList
  PROVE  Cardinality(Oldest(S)) <= Half
<1> DEFINE f == [e \in Oldest(S) |-> Cardinality(Before(S, e))]
<1>1. Half \in Nat \ {0}
  BY AdmissionAssumption
<1>2. \A e \in Oldest(S) : Cardinality(Before(S, e)) \in 0..(Half - 1)
  <2> SUFFICES ASSUME NEW e \in Oldest(S) PROVE Cardinality(Before(S, e)) \in 0..(Half - 1)
    OBVIOUS
  <2>1. Before(S, e) \in SUBSET People
    BY DEF Before, OnList
  <2>2. Cardinality(Before(S, e)) \in Nat /\ Cardinality(Before(S, e)) < Half
    BY <2>1, PeopleAreFinite DEF Oldest
  <2> QED BY <1>1, <2>2
<1>3. f \in [Oldest(S) -> 0..(Half - 1)]
  BY <1>2
<1>4. \A d, e \in Oldest(S) : f[d] = f[e] => d = e
  <2> SUFFICES ASSUME NEW d \in Oldest(S), NEW e \in Oldest(S), d # e
               PROVE  Cardinality(Before(S, d)) # Cardinality(Before(S, e))
    OBVIOUS
  <2>1. d \in S /\ e \in S /\ d \in OnList /\ e \in OnList
    BY DEF Oldest
  <2>2. Cardinality(Before(S, d)) \in Nat /\ Cardinality(Before(S, e)) \in Nat
    BY <1>1, <1>2
  <2>3. CASE <<d, e>> \in ahead
    BY <2>1, <2>2, <2>3, MoreBeforeTheLater
  <2>4. CASE <<e, d>> \in ahead
    BY <2>1, <2>2, <2>4, MoreBeforeTheLater
  <2> QED BY <2>1, <2>3, <2>4 DEF LineIsOrdered
<1>5. f \in Injection(Oldest(S), 0..(Half - 1))
  BY <1>3, <1>4 DEF Injection, IsInjective
<1>6. IsFiniteSet(0..(Half - 1)) /\ Cardinality(0..(Half - 1)) = Half
  BY <1>1, FS_Interval
<1> HIDE DEF f
<1> QED BY <1>5, <1>6, FS_Injection

\* A wave takes no more than it asked for.
LEMMA WavesAreSmall ==
  ASSUME LineIsOrdered, NEW lucky \in SUBSET (Eligible \ Oldest(Eligible)),
         Cardinality(lucky) = Least(Half, Cardinality(Eligible \ Oldest(Eligible)))
  PROVE  Cardinality(Oldest(Eligible) \union lucky) <= WaveSize(Cardinality(Eligible))
<1> DEFINE old == Oldest(Eligible)
           others == Eligible \ old
<1>1. Eligible \in SUBSET OnList /\ Eligible \in SUBSET People
  BY DEF Eligible, StatusNow, OnList
<1>2. old \in SUBSET People /\ others \in SUBSET People /\ lucky \in SUBSET People
      /\ old \union lucky \in SUBSET Eligible
  BY <1>1 DEF Oldest
<1>3. /\ IsFiniteSet(Eligible) /\ Cardinality(Eligible) \in Nat
      /\ IsFiniteSet(old) /\ Cardinality(old) \in Nat
      /\ IsFiniteSet(lucky) /\ Cardinality(lucky) \in Nat
      /\ Cardinality(others) \in Nat
  BY <1>1, <1>2, PeopleAreFinite
<1>4. Half \in Nat /\ Cardinality(old) <= Half /\ Cardinality(lucky) <= Half
  BY <1>1, <1>3, OldestAreHalf, AdmissionAssumption DEF Least
<1>5. old \cap lucky = {} /\ Cardinality(old \cap lucky) = 0
  BY FS_EmptySet
<1>6. Cardinality(old \union lucky) = Cardinality(old) + Cardinality(lucky)
  <2> HIDE DEF old
  <2>1. Cardinality(old \union lucky) = Cardinality(old) + Cardinality(lucky)
                                        - Cardinality(old \cap lucky)
    BY <1>3, FS_Union
  <2> QED BY <1>3, <1>5, <2>1
<1>7. Cardinality(old \union lucky) <= Cardinality(Eligible)
  BY <1>2, <1>3, FS_Subset
<1> HIDE DEF old
<1> QED BY <1>3, <1>4, <1>6, <1>7 DEF WaveSize, Least, old

-----------------------------------------------------------------------------
(***************************************************************************)
(* What a step adds to the invitations not used yet.                       *)
(***************************************************************************)
Reserved ==
  {k \in Recipients \X (1..MaxInvites) :
     k[2] \in OpenOf(k[1]) /\ invites[k[1]][k[2]].by = Platform}

LEMMA SlotsAreFinite == IsFiniteSet(Recipients \X (1..MaxInvites))
<1>1. IsFiniteSet(Recipients)
  BY AdmissionAssumption, FS_Union DEF Recipients
<1>2. IsFiniteSet(1..MaxInvites)
  BY AdmissionAssumption, FS_Interval
<1> QED BY <1>1, <1>2, FS_Product

LEMMA ReservedIsFinite ==
  /\ IsFiniteSet(Reserved) /\ Outstanding = Cardinality(Reserved) /\ Outstanding \in Nat
  /\ IsFiniteSet(Reserved') /\ Outstanding' = Cardinality(Reserved') /\ Outstanding' \in Nat
<1>1. Reserved \in SUBSET (Recipients \X (1..MaxInvites))
  BY DEF Reserved
<1>2. Reserved' \in SUBSET (Recipients \X (1..MaxInvites))
  BY DEF Reserved
<1>3. Outstanding = Cardinality(Reserved) /\ Outstanding' = Cardinality(Reserved')
  BY DEF Outstanding, Reserved
<1> QED BY <1>1, <1>2, <1>3, SlotsAreFinite, FS_Subset, FS_CardinalityType

LEMMA LessReserved ==
  ASSUME Reserved' \subseteq Reserved PROVE ~(Outstanding' > Outstanding)
BY ReservedIsFinite, FS_Subset

\* Closing some and adding none reserves nothing.
LEMMA ClosingReservesNothing ==
  ASSUME AdmissionTypeOK, InvitesWell, \A r \in Recipients : DOMAIN invites'[r] = DOMAIN invites[r]
  PROVE  Reserved' \subseteq Reserved
<1> SUFFICES ASSUME NEW r \in Recipients, NEW i \in 1..MaxInvites,
                    i \in OpenOf(r)', invites'[r][i].by = Platform
             PROVE  i \in OpenOf(r) /\ invites[r][i].by = Platform
  BY DEF Reserved
<1>1. /\ invites[r] \in Seq(Invite) /\ DOMAIN invites[r] = 1..Len(invites[r])
      /\ invites'[r] \in Seq(Invite) /\ DOMAIN invites'[r] = 1..Len(invites'[r])
      /\ Len(invites[r]) \in Nat /\ Len(invites'[r]) \in Nat
  BY OpenIndices, OpenIndicesAfter DEF AdmissionTypeOK, InvitesWell
<1>2. Len(invites'[r]) = Len(invites[r])
  BY <1>1
<1>3. Closed(invites[r], invites'[r])
  BY <1>1, <1>2 DEF InvitesWell, Added
<1>4. i \in 1..Len(invites[r]) /\ invites'[r][i].state = "open"
  BY <1>1, <1>2, OpenIndicesAfter DEF InvitesWell
<1>5. invites[r][i] = invites'[r][i]
  BY <1>3, <1>4 DEF Closed
<1> QED BY <1>4, <1>5, OpenIndices DEF AdmissionTypeOK

\* A member's invitation reserves nothing either.
LEMMA MemberReservesNothing ==
  ASSUME AdmissionTypeOK, NEW m \in People, NEW q \in Recipients, MemberInvites(m, q)
  PROVE  Reserved' \subseteq Reserved
<1>1. /\ invites \in [Recipients -> Seq(Invite)]
      /\ invites' = [invites EXCEPT ![q] = Append(invites[q], [by |-> m, state |-> "open"])]
  BY DEF MemberInvites, WithNew, AdmissionTypeOK
<1>2. m # Platform
  BY AdmissionAssumption
<1> SUFFICES ASSUME NEW r \in Recipients, NEW i \in 1..MaxInvites,
                    i \in OpenOf(r)', invites'[r][i].by = Platform
             PROVE  i \in OpenOf(r) /\ invites[r][i].by = Platform
  BY DEF Reserved
<1>3. CASE r # q
  BY <1>1, <1>3 DEF OpenOf
<1>4. CASE r = q
  <2>1. invites[r] \in Seq(Invite) /\ invites'[r] = Append(invites[r], [by |-> m, state |-> "open"])
    BY <1>1, <1>4
  <2>2. i \in 1..(Len(invites[r]) + 1) /\ invites'[r][i].state = "open"
    BY <2>1 DEF OpenOf
  <2>3. i # Len(invites[r]) + 1
    BY <1>2, <2>1
  <2>4. i \in 1..Len(invites[r]) /\ invites'[r][i] = invites[r][i]
    BY <2>1, <2>2, <2>3
  <2> QED BY <1>1, <2>2, <2>4, OpenIndices
<1> QED BY <1>3, <1>4

\* A grant reserves one for each it chooses, and nothing else.
LEMMA GrantReserves ==
  ASSUME AdmissionTypeOK, NEW chosen \in SUBSET Eligible, Grant(chosen)
  PROVE  Outstanding' <= Outstanding + Cardinality(chosen) /\ Cardinality(chosen) \in Nat
<1> DEFINE f == [r \in chosen |-> <<r, Len(invites[r]) + 1>>]
           new == {f[r] : r \in chosen}
<1>1. /\ chosen \in SUBSET People /\ chosen \subseteq Recipients
      /\ invites \in [Recipients -> Seq(Invite)]
  BY DEF Eligible, Recipients, AdmissionTypeOK
<1>2. IsFiniteSet(chosen) /\ Cardinality(chosen) \in Nat
  BY <1>1, PeopleAreFinite
<1>3. IsFiniteSet(new) /\ Cardinality(new) <= Cardinality(chosen)
  <2>1. f \in Surjection(chosen, new)
    BY DEF Surjection
  <2> HIDE DEF f
  <2> QED BY <1>2, <2>1, FS_Surjection
<1>4. Cardinality(new) \in Nat
  BY <1>3, FS_CardinalityType
<1>5. Reserved' \subseteq Reserved \union new
  <2> SUFFICES ASSUME NEW r \in Recipients, NEW i \in 1..MaxInvites,
                      i \in OpenOf(r)', invites'[r][i].by = Platform,
                      <<r, i>> \notin new
               PROVE  i \in OpenOf(r) /\ invites[r][i].by = Platform
    BY DEF Reserved
  <2>1. invites[r] \in Seq(Invite) /\ Len(invites[r]) \in Nat
    BY <1>1, OpenIndices
  <2>2. CASE r \notin chosen
    BY <2>2 DEF Grant, OpenOf
  <2>3. CASE r \in chosen
    <3>1. invites'[r] = Append(invites[r], [by |-> Platform, state |-> "open"])
      BY <2>3 DEF Grant, WithNew
    <3>2. i # Len(invites[r]) + 1
      BY <2>3
    <3>3. i \in 1..Len(invites[r]) /\ invites'[r][i] = invites[r][i] /\ invites'[r][i].state = "open"
      BY <2>1, <3>1, <3>2 DEF OpenOf
    <3> QED BY <1>1, <3>3, OpenIndices
  <2> QED BY <2>2, <2>3
<1> HIDE DEF new
<1>6. /\ IsFiniteSet(Reserved \union new)
      /\ Cardinality(Reserved \union new) <= Cardinality(Reserved) + Cardinality(new)
      /\ Cardinality(Reserved \union new) \in Nat
  <2>1. IsFiniteSet(Reserved) /\ Cardinality(Reserved) \in Nat
    BY ReservedIsFinite
  <2>2. /\ IsFiniteSet(Reserved \union new)
        /\ Cardinality(Reserved \union new)
             = Cardinality(Reserved) + Cardinality(new) - Cardinality(Reserved \cap new)
    BY <1>3, <2>1, FS_Union
  <2>3. Cardinality(Reserved \cap new) \in Nat
    BY <2>1, FS_Intersection, FS_CardinalityType
  <2>4. Cardinality(Reserved \union new) \in Nat
    BY <2>2, FS_CardinalityType
  <2> QED BY <1>4, <2>1, <2>2, <2>3, <2>4
<1>7. Cardinality(Reserved') <= Cardinality(Reserved \union new)
  BY <1>5, <1>6, FS_Subset
<1> QED BY <1>2, <1>3, <1>4, <1>6, <1>7, ReservedIsFinite

\* What fits as a whole fits when less of it is taken.
LEMMA GrantFits ==
  ASSUME AdmissionTypeOK, NEW chosen \in SUBSET Eligible, Grant(chosen),
         NEW n \in Nat, Cardinality(chosen) <= n, Fits(n), UNCHANGED account,
         Outstanding' > Outstanding
  PROVE  /\ Cardinality(account') + Outstanding' <= policy.accounts
         /\ Outstanding' <= policy.outstanding
<1>1. /\ Outstanding' <= Outstanding + Cardinality(chosen)
      /\ Cardinality(chosen) \in Nat
  BY GrantReserves
<1>2. Outstanding \in Nat /\ Outstanding' \in Nat
  BY ReservedIsFinite
<1>3. Cardinality(account) \in Nat
  BY PeopleAreFinite DEF AdmissionTypeOK
<1>4. policy.accounts \in Nat /\ policy.outstanding \in Nat
  BY AdmissionAssumption DEF AdmissionTypeOK, Limits
<1> QED BY <1>1, <1>2, <1>3, <1>4 DEF Fits

\* Only waves and selections reserve, and what they reserve fits.
LEMMA StepsFitTheLimits ==
  ASSUME AdmissionInv, LineIsOrdered, [AdmissionNext]_admissionVars, Outstanding' > Outstanding
  PROVE  /\ Cardinality(account') + Outstanding' <= policy.accounts
         /\ Outstanding' <= policy.outstanding
<1>1. AdmissionTypeOK /\ InvitesWell
  BY StepsKeep DEF AdmissionInv, Kept
<1>2. ASSUME \A r \in Recipients : DOMAIN invites'[r] = DOMAIN invites[r] PROVE FALSE
  BY <1>1, <1>2, ClosingReservesNothing, LessReserved
<1>3. ASSUME UNCHANGED invites PROVE FALSE
  BY <1>2, <1>3
<1>4. ASSUME NEW r \in Recipients, RevokeInvite(r) \/ \E e \in People : Redeem(e, r)
      PROVE  FALSE
  <2>1. \E i \in OpenOf(r), x \in {"accepted", "revoked"} :
           invites' = [invites EXCEPT ![r][i].state = x]
    BY <1>4 DEF Redeem, RevokeInvite
  <2>2. \A q \in Recipients : DOMAIN invites'[q] = DOMAIN invites[q]
    BY <1>1, <2>1 DEF AdmissionTypeOK
  <2> QED BY <1>2, <2>2
<1>5. ASSUME NEW m \in People, Suspend(m) \/ DeleteAccount(m) PROVE FALSE
  <2>1. \A r \in Recipients : DOMAIN invites'[r] = DOMAIN invites[r]
    BY <1>5 DEF Suspend, DeleteAccount, Revoked
  <2> QED BY <1>2, <2>1
<1>6. ASSUME NEW e \in People, Stop(e) \/ ProviderEvent(e) PROVE FALSE
  <2>1. invites' = [invites EXCEPT ![e] = Revoked(e, Anyone)]
    BY <1>6 DEF Stop, ProviderEvent, Leaves
  <2>2. \A r \in Recipients : DOMAIN invites'[r] = DOMAIN invites[r]
    BY <1>1, <2>1 DEF AdmissionTypeOK, Revoked
  <2> QED BY <1>2, <2>2
<1>7. ASSUME NEW m \in People, NEW r \in Recipients, MemberInvites(m, r) PROVE FALSE
  BY <1>1, <1>7, MemberReservesNothing, LessReserved
<1>8. ASSUME NEW chosen \in SUBSET Eligible, Grant(chosen), NEW n \in Nat,
             Cardinality(chosen) <= n, Fits(n), UNCHANGED account
      PROVE  /\ Cardinality(account') + Outstanding' <= policy.accounts
             /\ Outstanding' <= policy.outstanding
  BY <1>1, <1>8, GrantFits
<1>9. ASSUME NEW selection \in SUBSET People, InviteSelected(selection)
      PROVE  /\ Cardinality(account') + Outstanding' <= policy.accounts
             /\ Outstanding' <= policy.outstanding
  <2> DEFINE chosen == selection \cap Eligible
  <2>1. /\ chosen \in SUBSET Eligible /\ Grant(chosen) /\ UNCHANGED account
        /\ chosen # {} => Fits(Cardinality(chosen))
    BY <1>9 DEF InviteSelected, memberVars
  <2>2. Cardinality(chosen) \in Nat /\ (chosen = {} => Cardinality(chosen) = 0)
    BY PeopleAreFinite, FS_EmptySet
  <2>3. Fits(Cardinality(chosen))
    BY <2>1, <2>2 DEF Fits
  <2> HIDE DEF chosen
  <2> QED BY <1>8, <2>1, <2>2, <2>3
<1>10. CASE RunWave
  <2>1. UNCHANGED account
    BY <1>10 DEF RunWave, memberVars
  <2>2. ~UNCHANGED invites
    BY <1>3
  <2>3. PICK lucky \in SUBSET (Eligible \ Oldest(Eligible)) :
           /\ Cardinality(lucky) = Least(Half, Cardinality(Eligible \ Oldest(Eligible)))
           /\ Grant(Oldest(Eligible) \union lucky)
           /\ Fits(WaveSize(Cardinality(Eligible)))
    BY <1>10, <2>2 DEF RunWave, Oldest, Before
  <2>4. Cardinality(Oldest(Eligible) \union lucky) <= WaveSize(Cardinality(Eligible))
    BY <2>3, WavesAreSmall
  <2>5. WaveSize(Cardinality(Eligible)) \in Nat
    <3>1. Cardinality(Eligible) \in Nat
      BY PeopleAreFinite DEF Eligible
    <3> QED BY <3>1, AdmissionAssumption DEF WaveSize, Least
  <2>6. Oldest(Eligible) \union lucky \in SUBSET Eligible
    BY DEF Oldest
  <2> QED BY <1>8, <2>1, <2>3, <2>4, <2>5, <2>6
<1>11. ASSUME NEW e \in People, OnTheList(e) \/ Restore(e) \/ RequestStopLink(e) \/ ClearBlock(e)
       PROVE  UNCHANGED invites
  BY <1>11 DEF OnTheList, Request, Confirm, ForgetUnconfirmed, Restore, RequestStopLink, ClearBlock
<1>12. ASSUME SlotComes \/ ChangePolicy \/ (\E paused \in BOOLEAN : SetSchedule(paused))
              \/ UNCHANGED admissionVars
       PROVE  UNCHANGED invites
  BY <1>12 DEF SlotComes, ChangePolicy, SetSchedule, admissionVars
<1> QED BY <1>3, <1>4, <1>5, <1>6, <1>7, <1>9, <1>10, <1>11, <1>12
        DEF AdmissionNext, OnTheList, OfMembers, Stopping

\* Whatever the platform reserves, by a wave or a selection, fits both limits with everyone who has
\* an account and every invitation of its own not used yet: for any line, any batch and any policy.
THEOREM GrantsFit == AdmissionSpec => GrantsFitTheLimits
<1>1. AdmissionInv /\ LineIsOrdered /\ [AdmissionNext]_admissionVars
      => [Outstanding' > Outstanding
            => /\ Cardinality(account') + Outstanding' <= policy.accounts
               /\ Outstanding' <= policy.outstanding]_admissionVars
  BY StepsFitTheLimits
<1> QED BY <1>1, TheLineIsOrdered, AdmissionInvariant, PTL DEF AdmissionSpec, GrantsFitTheLimits

=============================================================================
