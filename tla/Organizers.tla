------------------------------ MODULE Organizers ------------------------------
(***************************************************************************)
(* Who belongs to an organization: applications and their approval, the    *)
(* team (added, invited, promoted, removed), the invitations that a login  *)
(* accepts, and what follows membership in the workspace of an event: the  *)
(* rows that give access to it and the tasks that name a person.           *)
(*                                                                         *)
(* Nothing here runs in a transaction ("sequential create avoids           *)
(* $transaction"): every handler reads what its checks need and then       *)
(* writes, statement by statement, each a step another request can         *)
(* overtake.  The responsible and the accountable person of a task are     *)
(* handled alike and kept as one; an organization has one event.           *)
(***************************************************************************)
EXTENDS Naturals

CONSTANTS Users,         \* accounts, and addresses that may become one
          Organizations, \* organizations that are, or may be, applied for
          Callers,       \* requests served at the same time
          NoUser,        \* no founder yet
          MaxCalls       \* bound: requests served

ASSUME OrganizersAssumption == NoUser \notin Users /\ MaxCalls \in Nat

VARIABLES
    approval,  \* organizations.approval_status; "none" before, "deleted" after
    founder,   \* organizations.created_by_id
    role,      \* organization_members: unique per user and organization
    invited,   \* organization_invitations: unique per organization and email
    verified,  \* users.is_verified
    open,      \* organizations whose event has a workspace
    access,    \* workspace_members of that workspace
    tasked,    \* users the tasks of that workspace name
    req,       \* requests under way
    calls,     \* requests served so far
    barred,    \* history: organizations that were ever suspended or revoked
    raced,     \* history: users who joined, or applied, twice at the same time
    late       \* history: members in use by a request while they were removed

vars == <<approval, founder, role, invited, verified, open, access, tasked, req,
          calls, barred, raced, late>>

orgVars == <<approval, founder, barred>>
teamVars == <<role, invited, verified>>
deskVars == <<open, access, tasked>>

\* "member" stands for manager and member: they differ in what they may see.
GivenRoles == {"co_owner", "member"}
Existing == {"pending", "approved", "rejected", "suspended", "revoked"}
Decisions == {"approved", "rejected", "suspended", "revoked"}
Members(o) == {u \in Users : role[o][u] # "none"}
Exists(o) == approval[o] \in Existing

Idle == [op |-> "idle"]
Requests ==
    {Idle}
      \cup [op : {"apply"}, who : Users]
      \cup [op : {"own"}, who : Users, org : Organizations]
      \cup [op : {"resubmit"}, org : Organizations]
      \cup [op : {"decide"}, org : Organizations, to : Decisions]
      \cup [op : {"invite", "add", "enter", "admit", "accepted", "let_in"},
            who : Users, org : Organizations, as : GivenRoles]
      \cup [op : {"promote"}, who : Users, org : Organizations, as : GivenRoles,
            row : BOOLEAN]
      \cup [op : {"remove", "shut_out", "leave"}, who : Users, org : Organizations,
            row : BOOLEAN]
      \cup [op : {"withdraw", "assign"}, who : Users, org : Organizations]
      \cup [op : {"seed"}, org : Organizations, left : SUBSET Users]

TypeOK ==
    /\ approval \in [Organizations -> Existing \cup {"none", "deleted"}]
    /\ founder \in [Organizations -> Users \cup {NoUser}]
    /\ role \in [Organizations -> [Users -> GivenRoles \cup {"owner", "none"}]]
    /\ invited \in [Organizations -> [Users ->
           [is : {"none", "pending", "lapsed", "expired", "accepted", "revoked"},
            as : GivenRoles]]]
    /\ verified \subseteq Users
    /\ open \subseteq Organizations
    /\ access \in [Organizations -> SUBSET Users]
    /\ tasked \in [Organizations -> SUBSET Users]
    /\ req \in [Callers -> Requests]
    /\ calls \in 0 .. MaxCalls
    /\ barred \subseteq Organizations
    /\ raced \subseteq Users
    /\ late \subseteq Organizations \X Users

-----------------------------------------------------------------------------
(* What a request is in the middle of *)

Joining(q, u) == q.op \in {"add", "enter", "admit"} /\ q.who = u
Applying(q, u) == q.op \in {"apply", "own"} /\ q.who = u
Removing(q, o, u) == q.op \in {"shut_out", "leave"} /\ q.org = o /\ q.who = u
Using(q, o, u) ==
    \/ q.op \in {"assign", "admit", "let_in"} /\ q.org = o /\ q.who = u
    \/ q.op = "seed" /\ q.org = o /\ u \in q.left

Raced(r) == {u \in Users : \E g, h \in Callers :
                 /\ g # h
                 /\ \/ Joining(r[g], u) /\ Joining(r[h], u)
                    \/ Applying(r[g], u) /\ Applying(r[h], u)}
Late(r) == {x \in Organizations \X Users : \E g, h \in Callers :
                Removing(r[g], x[1], x[2]) /\ Using(r[h], x[1], x[2])}

Moves(r) ==
    /\ req' = r
    /\ raced' = raced \cup Raced(r)
    /\ late' = late \cup Late(r)

Begins(h, q) ==
    /\ req[h] = Idle /\ calls < MaxCalls
    /\ calls' = calls + 1
    /\ Moves([req EXCEPT ![h] = q])

Continues(h, q) == Moves([req EXCEPT ![h] = q]) /\ UNCHANGED calls
Ends(h) == Continues(h, Idle)

\* The organizations there are at the start were founded, and approved, before;
\* some of their events have a workspace, seeded with the owner.
Init ==
    /\ approval \in [Organizations -> {"none", "approved"}]
    /\ founder \in [Organizations -> Users \cup {NoUser}]
    /\ \A o \in Organizations : approval[o] = "none" <=> founder[o] = NoUser
    /\ \A o, p \in Organizations : o # p /\ founder[o] # NoUser => founder[o] # founder[p]
    /\ role = [o \in Organizations |-> [u \in Users |->
                  IF founder[o] = u THEN "owner" ELSE "none"]]
    /\ invited = [o \in Organizations |-> [u \in Users |-> [is |-> "none", as |-> "member"]]]
    /\ verified \in SUBSET Users
    /\ \A o \in Organizations : founder[o] # NoUser => founder[o] \in verified
    /\ open \in SUBSET {o \in Organizations : founder[o] # NoUser}
    /\ access = [o \in Organizations |-> IF o \in open THEN {founder[o]} ELSE {}]
    /\ tasked = [o \in Organizations |-> {}]
    /\ req = [h \in Callers |-> Idle]
    /\ calls = 0
    /\ barred = {} /\ raced = {} /\ late = {}

-----------------------------------------------------------------------------
(* Applications: register, and an administrator's decisions *)

\* Such an organization refuses another application; a rejected one is reused.
\* (As a mutant of Counts: rejected organizations are not found.)
Undecided(o) == approval[o] \in {"pending", "approved"}

Counts(o) == approval[o] \in {"pending", "approved", "rejected"}

Owned(u) == {o \in Organizations : role[o][u] = "owner"}

\* findFirst returns any of the user's organizations that are not barred.
Apply(h, u) ==
    /\ u \in verified
    /\ LET found == {o \in Owned(u) : Counts(o)} IN
       \/ \E o \in found : ~Undecided(o) /\ Begins(h, [op |-> "resubmit", org |-> o])
       \/ found = {} /\ Begins(h, [op |-> "apply", who |-> u])
    /\ UNCHANGED <<orgVars, teamVars, deskVars>>

Resubmits(h) == LET o == req[h].org IN
    /\ req[h].op = "resubmit" /\ Exists(o)
    /\ approval' = [approval EXCEPT ![o] = "pending"]
    /\ Ends(h)
    /\ UNCHANGED <<founder, barred, teamVars, deskVars>>

CreatesOrganization(h, o) ==
    /\ req[h].op = "apply" /\ approval[o] = "none"
    /\ approval' = [approval EXCEPT ![o] = "pending"]
    /\ founder' = [founder EXCEPT ![o] = req[h].who]
    /\ Continues(h, [op |-> "own", who |-> req[h].who, org |-> o])
    /\ UNCHANGED <<barred, teamVars, deskVars>>

BecomesOwner(h) == LET q == req[h] IN
    /\ q.op = "own" /\ Exists(q.org)
    /\ role' = [role EXCEPT ![q.org][q.who] = "owner"]
    /\ Ends(h)
    /\ UNCHANGED <<orgVars, invited, verified, deskVars>>

\* Members, invitations and, through them, the team go with an organization;
\* its event and the event's workspace stay.
Disbands(o) ==
    /\ approval' = [approval EXCEPT ![o] = "deleted"]
    /\ role' = [role EXCEPT ![o] = [u \in Users |-> "none"]]
    /\ invited' = [invited EXCEPT ![o] = [u \in Users |-> [is |-> "none", as |-> "member"]]]
    /\ UNCHANGED <<founder, barred, verified, deskVars>>

\* The member could not be created: the organization is taken back.
TakesBack(h) ==
    /\ req[h].op = "own" /\ Exists(req[h].org)
    /\ Disbands(req[h].org)
    /\ Ends(h)

\* approveOrganizer, rejectOrganizer, suspendOrganizer, revokeOrganizer,
\* reinstateOrganizer: each refuses by the status it reads, and writes by id.
MayDecide(o, to) ==
    /\ approval[o] # to
    /\ to = "suspended" => approval[o] # "revoked"

Decide(h, o, to) ==
    /\ Exists(o) /\ MayDecide(o, to)
    /\ Begins(h, [op |-> "decide", org |-> o, to |-> to])
    /\ UNCHANGED <<orgVars, teamVars, deskVars>>

Decides(h) == LET q == req[h] IN
    /\ q.op = "decide" /\ Exists(q.org)
    /\ approval' = [approval EXCEPT ![q.org] = q.to]
    /\ barred' = IF q.to \in {"suspended", "revoked"} THEN barred \cup {q.org} ELSE barred
    /\ Ends(h)
    /\ UNCHANGED <<founder, teamVars, deskVars>>

DeleteOrganizer(h, o) ==
    /\ Exists(o)
    /\ Disbands(o)
    /\ req[h] = Idle /\ calls < MaxCalls /\ calls' = calls + 1
    /\ UNCHANGED <<req, raced, late>>

-----------------------------------------------------------------------------
(* The team: its managers and the administrators change it *)

\* requireTeamManager; only the owner touches a co-owner.
Manages(a, o, r) ==
    /\ approval[o] = "approved"
    /\ \/ role[o][a] = "owner"
       \/ role[o][a] = "co_owner" /\ r # "co_owner"

\* Mutant: nobody looks at the other organizations.
AnyTeam(u, o) == {}

Elsewhere(u, o) == {p \in Organizations \ {o} : role[p][u] # "none"}

\* addMyTeamMember: an account that is not verified is invited.
AddMyTeamMember(h, a, u, o, r) ==
    /\ Manages(a, o, r)
    /\ Elsewhere(u, o) = {} /\ role[o][u] = "none"
    /\ Begins(h, [op |-> IF u \in verified THEN "add" ELSE "invite",
                  who |-> u, org |-> o, as |-> r])
    /\ UNCHANGED <<orgVars, teamVars, deskVars>>

\* addOrganizerMember: by an administrator, whatever the organization's status;
\* someone who is on the team already is given the role.
AddOrganizerMember(h, u, o, r) ==
    /\ Exists(o)
    /\ u \in verified => Elsewhere(u, o) = {}
    /\ Begins(h, [op |-> IF u \in verified THEN "enter" ELSE "invite",
                  who |-> u, org |-> o, as |-> r])
    /\ UNCHANGED <<orgVars, teamVars, deskVars>>

Invites(h) == LET q == req[h] IN
    /\ q.op = "invite" /\ Exists(q.org)
    /\ invited' = [invited EXCEPT ![q.org][q.who] = [is |-> "pending", as |-> q.as]]
    /\ Ends(h)
    /\ UNCHANGED <<orgVars, role, verified, deskVars>>

\* create, refused by the unique index if the row is there; or upsert.
Adds(h) == LET q == req[h] IN
    /\ \/ q.op = "enter"
       \/ q.op = "add" /\ role[q.org][q.who] = "none"
    /\ Exists(q.org)
    /\ role' = [role EXCEPT ![q.org][q.who] = q.as]
    /\ Ends(h)
    /\ UNCHANGED <<orgVars, invited, verified, deskVars>>

\* updateMyTeamMember and updateOrganizerMember: what a manager may change, an
\* administrator may.
UpdateMember(h, u, o, r) ==
    /\ Exists(o) /\ role[o][u] \notin {"none", "owner"}
    /\ Begins(h, [op |-> "promote", who |-> u, org |-> o, as |-> r, row |-> TRUE])
    /\ UNCHANGED <<orgVars, teamVars, deskVars>>

UpdatesMember(h) == LET q == req[h] IN
    /\ q.op = "promote" /\ q.row /\ role[q.org][q.who] # "none"
    /\ role' = [role EXCEPT ![q.org][q.who] = q.as]
    /\ Ends(h)
    /\ UNCHANGED <<orgVars, invited, verified, deskVars>>

\* removeMyTeamMember and removeOrganizerMember.
RemoveMember(h, u, o) ==
    /\ Exists(o) /\ role[o][u] \notin {"none", "owner"}
    /\ Begins(h, [op |-> "remove", who |-> u, org |-> o, row |-> TRUE])
    /\ UNCHANGED <<orgVars, teamVars, deskVars>>

\* Mutant: tasks keep naming the one who leaves.
KeepsTasks(o, u) == tasked[o]

Unassigned(o, u) == tasked[o] \ {u}

UnassignsTasks(h) == LET q == req[h] IN
    /\ q.op = "remove"
    /\ tasked' = [tasked EXCEPT ![q.org] = Unassigned(q.org, q.who)]
    /\ Continues(h, [q EXCEPT !.op = "shut_out"])
    /\ UNCHANGED <<orgVars, teamVars, open, access>>

\* Mutant: the workspace rows stay.
KeepsAccess(o, u) == access[o]

ShutOut(o, u) == access[o] \ {u}

DropsAccess(h) == LET q == req[h] IN
    /\ q.op = "shut_out"
    /\ access' = [access EXCEPT ![q.org] = ShutOut(q.org, q.who)]
    /\ Continues(h, [q EXCEPT !.op = "leave"])
    /\ UNCHANGED <<orgVars, teamVars, open, tasked>>

\* The row is deleted by its id: other requests that hold it will not find it,
\* even if the person is added again.
HoldsRow(q, o, u) == q.op \in {"promote", "remove", "shut_out", "leave"}
                       /\ q.org = o /\ q.who = u

Leaves(h) == LET q == req[h] IN
    /\ q.op = "leave" /\ q.row /\ role[q.org][q.who] # "none"
    /\ role' = [role EXCEPT ![q.org][q.who] = "none"]
    /\ Moves([g \in Callers |->
           IF g = h THEN Idle
           ELSE IF HoldsRow(req[g], q.org, q.who) THEN [req[g] EXCEPT !.row = FALSE]
           ELSE req[g]])
    /\ UNCHANGED <<orgVars, invited, verified, calls, deskVars>>

-----------------------------------------------------------------------------
(* Invitations *)

Waiting == {"pending", "lapsed"}

InvitationLapses(o, u) ==
    /\ invited[o][u].is = "pending"
    /\ invited' = [invited EXCEPT ![o][u].is = "lapsed"]
    /\ UNCHANGED <<orgVars, role, verified, deskVars, req, calls, raced, late>>

\* revokeMyTeamInvitation, and the same through removeOrganizerMember.
RevokeInvitation(h, u, o) ==
    /\ Exists(o) /\ invited[o][u].is \in Waiting
    /\ Begins(h, [op |-> "withdraw", who |-> u, org |-> o])
    /\ UNCHANGED <<orgVars, teamVars, deskVars>>

Revokes(h) == LET q == req[h] IN
    /\ q.op = "withdraw" /\ invited[q.org][q.who].is # "none"
    /\ invited' = [invited EXCEPT ![q.org][q.who].is = "revoked"]
    /\ Ends(h)
    /\ UNCHANGED <<orgVars, role, verified, deskVars>>

\* A login by one-time code verifies the address and looks for an invitation.
\* (The newest is taken; the model lets any be the newest.)
Verify(h, u) ==
    /\ verified' = verified \cup {u}
    /\ invited' = [o \in Organizations |-> IF invited[o][u].is = "lapsed"
                      THEN [invited[o] EXCEPT ![u].is = "expired"] ELSE invited[o]]
    /\ LET found == {o \in Organizations : approval[o] = "approved"
                                            /\ invited[o][u].is = "pending"} IN
       \/ \E o \in found :
             /\ Elsewhere(u, o) = {} \/ role[o][u] # "none"
             /\ Begins(h, [op |-> "admit", who |-> u, org |-> o, as |-> invited[o][u].as])
       \/ /\ found = {} \/ \E o \in found : Elsewhere(u, o) # {}
          /\ Begins(h, Idle)
    /\ UNCHANGED <<orgVars, role, deskVars>>

Admits(h) == LET q == req[h] IN
    /\ q.op = "admit" /\ Exists(q.org)
    /\ role' = [role EXCEPT ![q.org][q.who] = q.as]
    /\ Continues(h, [q EXCEPT !.op = "let_in"])
    /\ UNCHANGED <<orgVars, invited, verified, deskVars>>

\* createMany with skipDuplicates, for the workspaces there are.
LetsIn(h) == LET q == req[h] IN
    /\ q.op = "let_in"
    /\ access' = IF q.org \in open /\ Exists(q.org)
                   THEN [access EXCEPT ![q.org] = @ \cup {q.who}] ELSE access
    /\ Continues(h, [q EXCEPT !.op = "accepted"])
    /\ UNCHANGED <<orgVars, teamVars, open, tasked>>

Accepts(h) == LET q == req[h] IN
    /\ q.op = "accepted" /\ invited[q.org][q.who].is # "none"
    /\ invited' = [invited EXCEPT ![q.org][q.who].is = "accepted"]
    /\ Ends(h)
    /\ UNCHANGED <<orgVars, role, verified, deskVars>>

-----------------------------------------------------------------------------
(* The workspace of the event *)

\* ensureWorkspace, by the team of an approved organization, or by a platform
\* administrator when it is suspended or revoked since: the workspace, then a row
\* for each member it read.  (The row of a creator who is on no team, an
\* administrator, is left out.)
EnsureWorkspace(h, o) ==
    /\ approval[o] \in {"approved", "suspended", "revoked"} /\ o \notin open
    /\ open' = open \cup {o}
    /\ Begins(h, [op |-> "seed", org |-> o, left |-> Members(o)])
    /\ UNCHANGED <<orgVars, teamVars, access, tasked>>

\* A row that is there already (an invitation accepted since) ends the request.
SeedsRow(h) == LET q == req[h] IN
    /\ q.op = "seed"
    /\ \E u \in q.left :
          IF u \in access[q.org]
            THEN Ends(h) /\ UNCHANGED access
            ELSE /\ access' = [access EXCEPT ![q.org] = @ \cup {u}]
                 /\ Continues(h, IF q.left = {u} THEN Idle ELSE [q EXCEPT !.left = @ \ {u}])
    /\ UNCHANGED <<orgVars, teamVars, open, tasked>>

\* resolveTaskMember, then createWorkspaceItem or updateWorkspaceItem.
AssignTask(h, u, o) ==
    /\ o \in open /\ Exists(o) /\ u \in verified /\ role[o][u] # "none"
    /\ Begins(h, [op |-> "assign", who |-> u, org |-> o])
    /\ UNCHANGED <<orgVars, teamVars, deskVars>>

Assigns(h) == LET q == req[h] IN
    /\ q.op = "assign"
    /\ tasked' = [tasked EXCEPT ![q.org] = @ \cup {q.who}]
    /\ Ends(h)
    /\ UNCHANGED <<orgVars, teamVars, open, access>>

\* A refusal by the database, a lost connection, a dead process.
Fails(h) ==
    /\ req[h] # Idle
    /\ Ends(h)
    /\ UNCHANGED <<orgVars, teamVars, deskVars>>

-----------------------------------------------------------------------------
ApplicationStep(h) ==
    \/ \E u \in Users : Apply(h, u)
    \/ \E o \in Organizations : CreatesOrganization(h, o) \/ DeleteOrganizer(h, o)
    \/ \E o \in Organizations, to \in Decisions : Decide(h, o, to)
    \/ Resubmits(h) \/ BecomesOwner(h) \/ TakesBack(h) \/ Decides(h)

TeamStep(h) ==
    \/ \E u \in Users, o \in Organizations, r \in GivenRoles :
          \/ \E a \in Users : AddMyTeamMember(h, a, u, o, r)
          \/ AddOrganizerMember(h, u, o, r)
          \/ UpdateMember(h, u, o, r)
    \/ \E u \in Users, o \in Organizations : RemoveMember(h, u, o)
    \/ Invites(h) \/ Adds(h) \/ UpdatesMember(h)
    \/ UnassignsTasks(h) \/ DropsAccess(h) \/ Leaves(h)

InvitationStep(h) ==
    \/ \E u \in Users, o \in Organizations : RevokeInvitation(h, u, o)
    \/ \E u \in Users : Verify(h, u)
    \/ Revokes(h) \/ Admits(h) \/ LetsIn(h) \/ Accepts(h)

WorkspaceStep(h) ==
    \/ \E o \in Organizations : EnsureWorkspace(h, o)
    \/ \E u \in Users, o \in Organizations : AssignTask(h, u, o)
    \/ SeedsRow(h) \/ Assigns(h)

Next ==
    \/ \E h \in Callers : ApplicationStep(h) \/ TeamStep(h) \/ InvitationStep(h)
                            \/ WorkspaceStep(h) \/ Fails(h)
    \/ \E o \in Organizations, u \in Users : InvitationLapses(o, u)

Spec == Init /\ [][Next]_vars

-----------------------------------------------------------------------------
(* Properties *)

\* Nobody owns two organizations that were never suspended or revoked, unless
\* two of their applications were read at the same time: a rejected application
\* is reused, an approved or pending one refuses the next (register).
OneApplication ==
    \A u \in Users \ raced : \A o, p \in Owned(u) :
        o = p \/ o \in barred \/ p \in barred

\* Of the organizations a person belongs to, at most one is somebody else's,
\* unless two of their joins overlapped: every way in (the team page, the
\* administrator, an invitation accepted at login) looks at the others first.
JoinsOneOrganization ==
    \A u \in Users \ raced : \A o, p \in Organizations :
        /\ role[o][u] # "none" /\ founder[o] # u
        /\ role[p][u] # "none" /\ founder[p] # u
        => o = p

\* A task names members of the organization only, unless the assignment was
\* under way while the member was removed.
TasksNameMembers ==
    \A o \in Organizations : Exists(o) =>
        \A u \in tasked[o] : role[o][u] # "none" \/ <<o, u>> \in late

\* Who was removed keeps no row in the workspace, which would go on to give
\* access to it (resolveViewerRole falls back to the row), unless an acceptance
\* or the seeding of the workspace was under way at the time.
NoAccessLeftBehind ==
    \A o \in Organizations : Exists(o) =>
        \A u \in access[o] : role[o][u] # "none" \/ <<o, u>> \in late
=============================================================================
